---------------------------- MODULE Spec2Model ----------------------------
(***************************************************************************)
(* Model of the superloop plug-in repository: the cooling-overhead         *)
(* post-processing step (scripts/utils.py), the plotting helper            *)
(* consolidate_keys (scripts/plots.py) and the estimator plug-ins          *)
(* (superloop_plug_in/*.py).                                               *)
(*                                                                         *)
(* Units.  Energies of a Result are integers counted in quarter joules, so *)
(* that the first-stage factor 93.75 = 375/4 is exact; temperatures are    *)
(* integers in kelvin; cycle_seconds is an integer number of seconds.      *)
(***************************************************************************)
EXTENDS Integers, Sequences, FiniteSets, TLC

VARIABLES
    \* ---- scripts/utils.py: add_cooling_overhead(result, spec)
    nodes,                  \* spec["architecture"]["nodes"], in order
    per_component_energy,   \* result.per_component_energy
    energy,                 \* result.energy
    cycles,                 \* result.cycles
    cycle_seconds,          \* result.cycle_seconds
    energy_before,          \* per_component_energy when the call was made
    cool_pc,                \* "idle" | "ready" | "returned" | "TypeError"
    \* ---- scripts/plots.py: consolidate_keys(data, missing_ok)
    ck_data,                \* the argument data: a list, or a dict, of items
    ck_missing_ok,          \* the argument missing_ok
    ck_pc,                  \* "idle" | "ready" | "returned" | an exception
    ck_result,              \* the list returned
    ck_error,               \* what a raised ValueError reports
    \* ---- superloop_plug_in/*.py: one estimator object and its queries
    est_class,              \* the class being instantiated
    est_args,               \* the arguments given to its constructor
    est_self,               \* the attributes of the instance (self)
    est_pc,                 \* "idle" | "new" | "constructed" | an exception
    est_call,               \* the method called last ("" before any call)
    est_ret,                \* how that call ended and what it returned
    \* ---- scripts/utils.py: parallel(jobs), each job a generate_result call
    jobs,                   \* the arguments of each sweep point, in order
    task,                   \* each sweep point's call of generate_result
    fs,                     \* output directories: <<directory, running task
                            \*   whose files it holds (0: none)>>
    par_pc,                 \* "idle" | "running" | "returned" | "raised"
    par_result,             \* the list parallel() returned
    \* ---- scripts/plots.py: one call of a plotting utility
    pl_function,            \* the utility called ("" before the call)
    pl_result,              \* the argument result: a dict of items
    pl_missing_ok,          \* the argument missing_ok
    pl_pc,                  \* "idle" | "ready" | "returned" | an exception
    pl_keys                 \* the sub-series the call went through

cooling_vars == <<nodes, per_component_energy, energy, cycles, cycle_seconds,
                  energy_before, cool_pc>>

keys_vars == <<ck_data, ck_missing_ok, ck_pc, ck_result, ck_error>>

est_vars == <<est_class, est_args, est_self, est_pc, est_call, est_ret>>

sweep_vars == <<jobs, task, fs, par_pc, par_result>>

plot_vars == <<pl_function, pl_result, pl_missing_ok, pl_pc, pl_keys>>

vars == <<cooling_vars, keys_vars, est_vars, sweep_vars, plot_vars>>

\* what a step of one part of the repository leaves alone
not_cooling_vars == <<keys_vars, est_vars, sweep_vars, plot_vars>>
not_keys_vars == <<cooling_vars, est_vars, sweep_vars, plot_vars>>
not_est_vars == <<cooling_vars, keys_vars, sweep_vars, plot_vars>>
not_sweep_vars == <<cooling_vars, keys_vars, est_vars, plot_vars>>
not_plot_vars == <<cooling_vars, keys_vars, est_vars, sweep_vars>>

(***************************************************************************)
(* Bounds                                                                  *)
(***************************************************************************)
MaxComp == 2            \* number of distinct component names
MaxDicts == 2           \* number of items handed to consolidate_keys
MaxJobs == 2            \* number of sweep points handed to parallel
MaxWorkers == 2         \* number of workers of the pool

(***************************************************************************)
(* scripts/utils.py                                                        *)
(***************************************************************************)
None == -1              \* Python's None as a temperature value
RoomTemperature == 300  \* default when a node has no temperature attribute

ComponentNames == 1 .. MaxComp

\* temperatures (K) on both sides of, and exactly at, every threshold
Temperatures == {4, 10, 50, 80, 150, 200, 250, 300, 350}

\* a node's attributes: with a temperature (possibly None), or without one
AttributeSets == [temperature : Temperatures \cup {None}] \cup {[width |-> 1]}

\* 79 J and 160 J, counted in quarter joules: with cycles * cycle_seconds in
\* {1, 2, 4} the powers are 79, 160, 39.5, 80, 19.75 and 40 W
Energies == {316, 640}

RECURSIVE SumOver(_, _)
SumOver(f, S) ==
    IF S = {} THEN 0
    ELSE LET k == CHOOSE k \in S : TRUE
         IN f[k] + SumOver(f, S \ {k})

\* sum(result.per_component_energy.values())
SumValues(pce) == SumOver(pce, DOMAIN pce)

\* mutant: a node without a temperature attribute defaults to 4K
get_per_component_temperature_Cold(component_keys, nds) ==
    LET comp_attr == SelectSeq(nds, LAMBDA n : n.name \in component_keys)
    IN [i \in 1 .. Len(comp_attr) |->
          <<comp_attr[i].name,
            IF "temperature" \in DOMAIN comp_attr[i].attributes
            THEN comp_attr[i].attributes.temperature
            ELSE 4>>]

\* get_per_component_temperature: the ordered mapping name -> temperature,
\* as a sequence of <<name, temperature>> in node order
get_per_component_temperature(component_keys, nds) ==
    LET comp_attr == SelectSeq(nds, LAMBDA n : n.name \in component_keys)
    IN [i \in 1 .. Len(comp_attr) |->
          <<comp_attr[i].name,
            IF "temperature" \in DOMAIN comp_attr[i].attributes
            THEN comp_attr[i].attributes.temperature
            ELSE RoomTemperature>>]

\* any(v < 10 for v in comp_temp.values()): evaluated in order, stops at the
\* first true element; None < 10 raises TypeError
RECURSIVE AnyBelow10(_, _)
AnyBelow10(comp_temp, i) ==
    IF i > Len(comp_temp) THEN "False"
    ELSE IF comp_temp[i][2] = None THEN "TypeError"
    ELSE IF comp_temp[i][2] < 10 THEN "True"
    ELSE AnyBelow10(comp_temp, i + 1)

\* e * 93.75
FirstStageOverhead(e) == (e * 375) \div 4

\* e * 1000
SecondStageOverhead(e) == e * 1000

\* power = e / (cycles * cycle_seconds); power < 80
PowerBelow80(e, cyc, secs) == e < 80 * 4 * cyc * secs

\* mutant: the first-stage factor is gated on power also without 4K cooling
LoopBody_PowerGated(e, v, cooling_to_4K, cyc, secs) ==
    IF v = None THEN e
    ELSE IF v > 200 /\ v < 300 THEN e
    ELSE IF v > 10 /\ v < 80
         THEN IF PowerBelow80(e, cyc, secs) THEN e ELSE FirstStageOverhead(e)
    ELSE IF v < 10 THEN SecondStageOverhead(e)
    ELSE e

\* mutant: the first-stage test has no upper limit
LoopBody_NoUpperLimit(e, v, cooling_to_4K, cyc, secs) ==
    IF v = None THEN e
    ELSE IF v > 200 /\ v < 300 THEN e
    ELSE IF v > 10
         THEN IF cooling_to_4K
              THEN IF PowerBelow80(e, cyc, secs) THEN e
                   ELSE FirstStageOverhead(e)
              ELSE FirstStageOverhead(e)
    ELSE IF v < 10 THEN SecondStageOverhead(e)
    ELSE e

\* mutant: a component at exactly 10K counts as second stage
LoopBody_TenIsSecondStage(e, v, cooling_to_4K, cyc, secs) ==
    IF v = None THEN e
    ELSE IF v > 200 /\ v < 300 THEN e
    ELSE IF v > 10 /\ v < 80
         THEN IF cooling_to_4K
              THEN IF PowerBelow80(e, cyc, secs) THEN e
                   ELSE FirstStageOverhead(e)
              ELSE FirstStageOverhead(e)
    ELSE IF v <= 10 THEN SecondStageOverhead(e)
    ELSE e

\* one iteration of the loop body for a component at temperature v
LoopBody(e, v, cooling_to_4K, cyc, secs) ==
    IF v = None THEN e
    ELSE IF v > 200 /\ v < 300 THEN e
    ELSE IF v > 10 /\ v < 80
         THEN IF cooling_to_4K
              THEN IF PowerBelow80(e, cyc, secs) THEN e
                   ELSE FirstStageOverhead(e)
              ELSE FirstStageOverhead(e)
    ELSE IF v < 10 THEN SecondStageOverhead(e)
    ELSE e

\* for k, v in comp_temp.items(): ...
RECURSIVE CoolingLoop(_, _, _, _, _, _)
CoolingLoop(pce, comp_temp, i, cooling_to_4K, cyc, secs) ==
    IF i > Len(comp_temp) THEN pce
    ELSE LET k == comp_temp[i][1]
             v == comp_temp[i][2]
         IN CoolingLoop(
                [pce EXCEPT ![k] = LoopBody(pce[k], v, cooling_to_4K, cyc, secs)],
                comp_temp, i + 1, cooling_to_4K, cyc, secs)

\* mutant: the total is not recomputed
UpdateTotal_Stale(pce, old) == old

\* result.energy = sum(result.per_component_energy.values())
UpdateTotal(pce, old) == SumValues(pce)

\* sequences of distinct component names: the names of the nodes, in order
NameOrders ==
    {s \in UNION {[1 .. n -> ComponentNames] : n \in 0 .. MaxComp} :
        \A i, j \in DOMAIN s : i # j => s[i] # s[j]}

NodeLists ==
    UNION {{[i \in DOMAIN s |-> [name |-> s[i], attributes |-> a[i]]] :
               a \in [DOMAIN s -> AttributeSets]} : s \in NameOrders}

EnergyMaps ==
    UNION {[S -> Energies] : S \in (SUBSET ComponentNames) \ {{}}}

CoolingIdle ==
    /\ nodes = <<>>
    /\ per_component_energy = <<>>
    /\ energy = 0
    /\ cycles = 0
    /\ cycle_seconds = 0
    /\ energy_before = <<>>
    /\ cool_pc = "idle"

\* what is enumerated for a node that is no component of the result (the
\* filter of get_per_component_temperature drops it): 4K, or no temperature
UnreportedAttributeSets == {[temperature |-> 4], [width |-> 1]}

\* a result as the mapper returns it and the specification it was run on
CoolingInit ==
    /\ per_component_energy \in EnergyMaps
    /\ nodes \in NodeLists
    /\ \A i \in DOMAIN nodes :
          nodes[i].name \notin DOMAIN per_component_energy =>
              nodes[i].attributes \in UnreportedAttributeSets
    /\ energy = SumValues(per_component_energy)
    /\ cycles \in {1, 2}
    /\ cycle_seconds \in {1, 2}
    /\ energy_before = per_component_energy
    /\ cool_pc = "ready"

CompTemp == get_per_component_temperature(DOMAIN per_component_energy, nodes)

\* add_cooling_overhead(result, spec) when any() raises on a None temperature
add_cooling_overhead_raises ==
    /\ cool_pc = "ready"
    /\ AnyBelow10(CompTemp, 1) = "TypeError"
    /\ cool_pc' = "TypeError"
    /\ UNCHANGED <<nodes, per_component_energy, energy, cycles, cycle_seconds,
                   energy_before>>
    /\ UNCHANGED not_cooling_vars

\* add_cooling_overhead(result, spec) running to its return
add_cooling_overhead_returns ==
    /\ cool_pc = "ready"
    /\ AnyBelow10(CompTemp, 1) # "TypeError"
    /\ LET cooling_to_4K == AnyBelow10(CompTemp, 1) = "True"
           pce == CoolingLoop(per_component_energy, CompTemp, 1,
                              cooling_to_4K, cycles, cycle_seconds)
       IN /\ per_component_energy' = pce
          /\ energy' = UpdateTotal(pce, energy)
    /\ cool_pc' = "returned"
    /\ UNCHANGED <<nodes, cycles, cycle_seconds, energy_before>>
    /\ UNCHANGED not_cooling_vars

add_cooling_overhead ==
    \/ add_cooling_overhead_raises
    \/ add_cooling_overhead_returns

(***************************************************************************)
(* scripts/plots.py: consolidate_keys                                      *)
(*                                                                         *)
(* A dictionary is modelled by the sequence of its keys in insertion       *)
(* order (consolidate_keys never reads a value); an item that is no        *)
(* dictionary (a scalar) has is_dict = FALSE.                              *)
(***************************************************************************)
Keys == {"a", "b", "c"}

KeyLists ==
    {s \in UNION {[1 .. n -> Keys] : n \in 0 .. Cardinality(Keys)} :
        \A i, j \in DOMAIN s : i # j => s[i] # s[j]}

Items ==
    {[is_dict |-> TRUE, keys |-> s] : s \in KeyLists}
        \cup {[is_dict |-> FALSE, keys |-> <<>>]}

DataArguments ==
    [is_list : BOOLEAN,
     values : UNION {[1 .. n -> Items] : n \in 0 .. MaxDicts}]

Range(s) == {s[i] : i \in DOMAIN s}

\* alldicts = data if isinstance(data, list) else list(data.values())
AllDicts(data) == IF data.is_list THEN data.values ELSE data.values

\* all(isinstance(first, dict) == isinstance(d, dict) for d in alldicts)
SameKind(alldicts) ==
    \A i \in DOMAIN alldicts : alldicts[1].is_dict = alldicts[i].is_dict

\* mutant: allkeys.extend(d.keys())
ExtendKeys_All(allkeys, d) == allkeys \o d.keys

\* allkeys.extend([k for k in d.keys() if k not in allkeys])
ExtendKeys(allkeys, d) ==
    allkeys \o SelectSeq(d.keys, LAMBDA k : k \notin Range(allkeys))

\* for d in alldicts: allkeys.extend(...)
RECURSIVE CollectKeys(_, _, _)
CollectKeys(allkeys, alldicts, i) ==
    IF i > Len(alldicts) THEN allkeys
    ELSE CollectKeys(ExtendKeys(allkeys, alldicts[i]), alldicts, i + 1)

NoError == [key |-> "", dictionary |-> 0]

\* mutant: for k in allkeys: for d in alldicts: if k not in d: raise
RECURSIVE FirstMissing_KeyMajor(_, _, _, _)
FirstMissing_KeyMajor(alldicts, allkeys, i, j) ==
    IF j > Len(allkeys) THEN NoError
    ELSE IF i > Len(alldicts)
         THEN FirstMissing_KeyMajor(alldicts, allkeys, 1, j + 1)
    ELSE IF allkeys[j] \notin Range(alldicts[i].keys)
         THEN [key |-> allkeys[j], dictionary |-> i]
    ELSE FirstMissing_KeyMajor(alldicts, allkeys, i + 1, j)

\* for d in alldicts: for k in allkeys: if k not in d: raise ValueError
\* the key and the dictionary (its position in alldicts) of the first raise,
\* NoError when the loops end
RECURSIVE FirstMissing(_, _, _, _)
FirstMissing(alldicts, allkeys, i, j) ==
    IF i > Len(alldicts) THEN NoError
    ELSE IF j > Len(allkeys) THEN FirstMissing(alldicts, allkeys, i + 1, 1)
    ELSE IF allkeys[j] \notin Range(alldicts[i].keys)
         THEN [key |-> allkeys[j], dictionary |-> i]
    ELSE FirstMissing(alldicts, allkeys, i, j + 1)

\* consolidate_keys(data, missing_ok): [pc, result, error]
consolidate_keys(data, missing_ok) ==
    LET alldicts == AllDicts(data)
        allkeys == CollectKeys(<<>>, alldicts, 1)
        missing == FirstMissing(alldicts, allkeys, 1, 1)
    IN IF alldicts = <<>>
       THEN [pc |-> "returned", result |-> <<>>, error |-> NoError]
       ELSE IF ~SameKind(alldicts)
       THEN [pc |-> "AssertionError", result |-> <<>>, error |-> NoError]
       ELSE IF ~alldicts[1].is_dict
       THEN [pc |-> "returned", result |-> <<"">>, error |-> NoError]
       ELSE IF ~missing_ok /\ missing # NoError
       THEN [pc |-> "ValueError", result |-> <<>>, error |-> missing]
       ELSE [pc |-> "returned", result |-> allkeys, error |-> NoError]

KeysIdle ==
    /\ ck_data = [is_list |-> TRUE, values |-> <<>>]
    /\ ck_missing_ok = FALSE
    /\ ck_pc = "idle"
    /\ ck_result = <<>>
    /\ ck_error = NoError

KeysInit ==
    /\ ck_data \in DataArguments
    /\ ck_missing_ok \in BOOLEAN
    /\ ck_pc = "ready"
    /\ ck_result = <<>>
    /\ ck_error = NoError

\* what a call that ended with `out` leaves behind
ConsolidateKeysEnds(out) ==
    /\ ck_pc' = out.pc
    /\ ck_result' = out.result
    /\ ck_error' = out.error
    /\ UNCHANGED <<ck_data, ck_missing_ok>>
    /\ UNCHANGED not_keys_vars

\* a call of consolidate_keys that returns
consolidate_keys_returns ==
    /\ ck_pc = "ready"
    /\ consolidate_keys(ck_data, ck_missing_ok).pc = "returned"
    /\ ConsolidateKeysEnds(consolidate_keys(ck_data, ck_missing_ok))

\* the assert of lines 37-40 fails: a mix of dictionaries and scalars
consolidate_keys_asserts ==
    /\ ck_pc = "ready"
    /\ consolidate_keys(ck_data, ck_missing_ok).pc = "AssertionError"
    /\ ConsolidateKeysEnds(consolidate_keys(ck_data, ck_missing_ok))

\* raise ValueError of lines 52-55
consolidate_keys_raises ==
    /\ ck_pc = "ready"
    /\ consolidate_keys(ck_data, ck_missing_ok).pc = "ValueError"
    /\ ConsolidateKeysEnds(consolidate_keys(ck_data, ck_missing_ok))

(***************************************************************************)
(* scripts/plots.py: the plotting utilities                                *)
(*                                                                         *)
(* result maps a category label to a scalar or to a nested dictionary of   *)
(* sub-series; as for consolidate_keys, a dictionary is the sequence of    *)
(* its keys and a scalar has is_dict = FALSE.  Every optional argument     *)
(* but missing_ok keeps its default (print_csv = False, label_bars =      *)
(* True); PRINT_ERRORS is False, so print_errors returns at once.  What    *)
(* matplotlib and numpy do with the numbers is outside the model: a call   *)
(* "returned" when no statement of plots.py raised.                        *)
(***************************************************************************)
ResultArguments == {d \in DataArguments : ~d.is_list}

Plotted(pc, keys) == [pc |-> pc, keys |-> keys]

\* {k: {"": v} for k, v in result.items()}
SingleSubSeries(result) ==
    [result EXCEPT
        !.values = [i \in DOMAIN result.values |->
                       [is_dict |-> TRUE, keys |-> <<"">>]]]

\* first_result = next(iter(result.values())) and the if/assert/else that
\* follows, as bar_stacked, plot and scatter begin: [pc, result]
first_result(result) ==
    IF result.values = <<>>
    THEN [pc |-> "StopIteration", result |-> result]
    ELSE IF ~result.values[1].is_dict
    THEN [pc |-> "ok", result |-> SingleSubSeries(result)]
    ELSE IF \A i \in DOMAIN result.values : result.values[i].is_dict
    THEN [pc |-> "ok", result |-> result]
    ELSE [pc |-> "AssertionError", result |-> result]

\* some dictionary of result lacks some key of keys
LacksKey(result, keys) == FirstMissing(result.values, keys, 1, 1) # NoError

\* bar_side_by_side(result): no conversion of scalars; group_data.get is
\* called on every value of result as soon as keys is not empty
bar_side_by_side(result) ==
    LET keys == consolidate_keys(result, TRUE)
    IN IF keys.pc # "returned" THEN Plotted(keys.pc, <<>>)
       ELSE IF /\ keys.result # <<>>
               /\ \E i \in DOMAIN result.values : ~result.values[i].is_dict
       THEN Plotted("AttributeError", <<>>)
       ELSE Plotted("returned", keys.result)

\* bar_stacked(result, missing_ok)
bar_stacked(result, missing_ok) ==
    LET first == first_result(result)
        keys == consolidate_keys(first.result, missing_ok)
    IN IF first.pc # "ok" THEN Plotted(first.pc, <<>>)
       ELSE IF keys.pc # "returned" THEN Plotted(keys.pc, <<>>)
       ELSE Plotted("returned", keys.result)

\* scatter(result, missing_ok): y = [r[key] for r in result.values()]
scatter(result, missing_ok) ==
    LET first == first_result(result)
        keys == consolidate_keys(first.result, missing_ok)
    IN IF first.pc # "ok" THEN Plotted(first.pc, <<>>)
       ELSE IF keys.pc # "returned" THEN Plotted(keys.pc, <<>>)
       ELSE IF LacksKey(first.result, keys.result)
       THEN Plotted("KeyError", <<>>)
       ELSE Plotted("returned", keys.result)

\* plot(result, missing_ok): as scatter, then ax.set_xticks(x) with x
\* assigned only inside the loop over keys
plot(result, missing_ok) ==
    LET points == scatter(result, missing_ok)
    IN IF points.pc = "returned" /\ points.keys = <<>>
       THEN Plotted("UnboundLocalError", <<>>)
       ELSE points

PlotsIdle ==
    /\ pl_function = ""
    /\ pl_result = [is_list |-> FALSE, values |-> <<>>]
    /\ pl_missing_ok = FALSE
    /\ pl_pc = "idle"
    /\ pl_keys = <<>>

PlotsInit ==
    /\ pl_function = ""
    /\ pl_result \in ResultArguments
    /\ pl_missing_ok \in BOOLEAN
    /\ pl_pc = "ready"
    /\ pl_keys = <<>>

\* what a call of `function` that ended with `out` leaves behind
PlottingEnds(function, out) ==
    /\ pl_function' = function
    /\ pl_pc' = out.pc
    /\ pl_keys' = out.keys
    /\ UNCHANGED <<pl_result, pl_missing_ok>>
    /\ UNCHANGED not_plot_vars

call_bar_side_by_side ==
    /\ pl_pc = "ready"
    /\ PlottingEnds("bar_side_by_side", bar_side_by_side(pl_result))

call_bar_stacked ==
    /\ pl_pc = "ready"
    /\ PlottingEnds("bar_stacked", bar_stacked(pl_result, pl_missing_ok))

call_plot ==
    /\ pl_pc = "ready"
    /\ PlottingEnds("plot", plot(pl_result, pl_missing_ok))

call_scatter ==
    /\ pl_pc = "ready"
    /\ PlottingEnds("scatter", scatter(pl_result, pl_missing_ok))

(***************************************************************************)
(* superloop_plug_in: the estimator plug-ins                               *)
(*                                                                         *)
(* Scalars.  A physical quantity is held exactly, as a finite sum of       *)
(* integer multiples of named units: the set of its <<unit, n>> terms,     *)
(* n # 0.  The number 0 is the empty set.  global_cycle_seconds is an      *)
(* integer number of reference periods ("T"); a frequency is held as its   *)
(* reciprocal, so x / freq is x * period.                                  *)
(***************************************************************************)
Zero == {}

Q(n, unit) == IF n = 0 THEN Zero ELSE {<<unit, n>>}

UnitsOf(v) == {t[1] : t \in v}

CoefficientOf(v, u) == IF u \in UnitsOf(v)
                       THEN (CHOOSE t \in v : t[1] = u)[2] ELSE 0

\* a + b
Plus(a, b) ==
    UNION {Q(CoefficientOf(a, u) + CoefficientOf(b, u), u) :
              u \in UnitsOf(a) \cup UnitsOf(b)}

\* v * n, n an integer
Times(v, n) == UNION {Q(t[2] * n, t[1]) : t \in v}

Returned(v, self) == [status |-> "returned", value |-> v, self |-> self]

Raised(e, self) == [status |-> e, value |-> Zero, self |-> self]

NoSelf == [no_instance |-> TRUE]

Built(self) == [status |-> "constructed", self |-> self]

Failed(e) == [status |-> e, self |-> NoSelf]

\* argument values
CycleSeconds == {1, 2}
Widths == {1, 2}
Depths == {1, 2}
ChannelCounts == {1, 2}
NetworkTemperatures == {4, 10, 50, 100, 300}

\* ------------------------------------------------------------ memory.py
VTcellRAM_init(a) ==
    Built([width |-> a.width, depth |-> a.depth,
           global_cycle_seconds |-> a.global_cycle_seconds])

DLMPassive_cell2density ==
    {"Nb_mature", "Nb_aggressive", "MoN_ms_mature", "MoN_ms_aggressive",
     "MoN_sl_aggressive", "NbTiN_sl_academic", "NbN_academic"}

DLMPassive_init(a) ==
    IF a.cell_type \notin DLMPassive_cell2density THEN Failed("AssertionError")
    ELSE Built([type |-> a.cell_type,
                global_cycle_seconds |-> a.global_cycle_seconds,
                line_depth |-> a.line_depth,
                line_count |-> a.line_count,
                time_bin |-> IF a.time_bin = None
                             THEN a.global_cycle_seconds ELSE a.time_bin,
                \* bias_overhead = 1.5, held as twice its value
                bias_overhead_x2 |-> 3])

nMem_init(a) ==
    Built([width |-> a.width, depth |-> a.depth,
           global_cycle_seconds |-> a.global_cycle_seconds])

AQFP_Dlatch_init(a) ==
    Built([width |-> a.width, depth |-> a.depth,
           global_cycle_seconds |-> a.global_cycle_seconds])

\* [read, write, refresh], in units of 0.1 fJ
CryoDRAM_cell2energies ==
    ("2T_NW-PR" :> <<3460, 1535, 220>>) @@
    ("3T_NW-PR" :> <<4100, 1565, 235>>) @@
    ("3T_PW-PR" :> <<2620, 2120, 222>>)

CryoDRAM_init(a) ==
    IF a.cell_type \notin DOMAIN CryoDRAM_cell2energies
    THEN Failed("AssertionError")
    ELSE Built([type |-> a.cell_type, width |-> a.width, depth |-> a.depth,
                global_cycle_seconds |-> a.global_cycle_seconds])

\* [read, write], in units of the table (* 1e-15 J in read and write)
CryoSRAM_cell2energies == ("6T_static" :> <<618, 473>>)

CryoSRAM_init(a) ==
    IF a.cell_type \notin DOMAIN CryoSRAM_cell2energies
    THEN Failed("AssertionError")
    ELSE Built([type |-> a.cell_type, width |-> a.width, depth |-> a.depth,
                global_cycle_seconds |-> a.global_cycle_seconds])

\* list[i] of Python, i counted from 0: a value, or IndexError
ListIndex(list, i) ==
    IF i + 1 \in DOMAIN list
    THEN [status |-> "ok", item |-> list[i + 1]]
    ELSE [status |-> "IndexError", item |-> 0]

\* self.cell2energies[self.type][i] * 1e-15 * self.width
CellEnergy(table, self, i, unit) ==
    LET e == ListIndex(table[self.type], i)
    IN IF e.status = "ok" THEN Returned(Q(e.item * self.width, unit), self)
       ELSE Raised(e.status, self)

\* -------------------------------------------------------- inter_temp.py
\* heatload [stage1, stage2], in uW
CRYOCABLE_LOAD ==
    ("delft_crioflex_Ag" :> <<2700, 800>>) @@
    ("BeCu_hypres_stripline1" :> <<1480, 440>>) @@
    ("BeCu_hypres_stripline2" :> <<2500, 740>>) @@
    ("BeCu_hypres_stripline3" :> <<3780, 1118>>) @@
    ("BeCu_hypres_coax" :> <<8350, 2473>>)

\* the cable types the docstring of Cables names as supported
CablesDocumentedTypes == {"delft_crioflex", "BeCu"}

\* the default value of the parameter `type` of Cables.__init__
CablesDefaultType == "delft_crioflex"

\* the integer 0 given as `type` (every other type is a string)
TypeZero == "0 (int)"

CableTypes ==
    DOMAIN CRYOCABLE_LOAD \cup CablesDocumentedTypes \cup {TypeZero, "NbTi"}

\* the keys of CRYOCABLE_LOAD that `type` selects: self.type in
\* CRYOCABLE_LOAD.keys(), then CRYOCABLE_LOAD[self.type]
CablesLookup(type) == {type} \cap DOMAIN CRYOCABLE_LOAD

\* the four sequential route tests of the constructors: a later match
\* overwrites an earlier one; names = <<RT to 1, 1 to 2, RT to 2>>
Route(hot_temp, cold_temp, names) ==
    LET r0 == ""
        r1 == IF hot_temp > 100 /\ cold_temp > 10 THEN names[1] ELSE r0
        r2 == IF hot_temp < 100 /\ cold_temp < 10 THEN names[2] ELSE r1
        r3 == IF hot_temp > 100 /\ cold_temp < 10 THEN names[3] ELSE r2
    IN IF hot_temp = cold_temp THEN "stationary" ELSE r3

Hot2ColdRoutes == <<"RT->1", "1->2", "RT->2">>

Cold2HotRoutes == <<"1->RT", "2->1", "2->RT">>

Cables_init(a) ==
    LET route == Route(a.hot_temp, a.cold_temp, Hot2ColdRoutes)
        self0 == [hot_temp |-> a.hot_temp, cold_temp |-> a.cold_temp,
                  channel_count |-> a.channel_count,
                  electrical_only |-> a.electrical_only,
                  freq |-> [period |-> a.global_cycle_seconds],
                  route |-> route, type |-> a.type]
    IN IF route = "" THEN Failed("AssertionError")
       ELSE IF a.type = TypeZero
       THEN Built(self0 @@ [stage1_load |-> a.stage1_load,
                            stage2_load |-> a.stage2_load])
       ELSE IF CablesLookup(a.type) = {} THEN Failed("AssertionError")
       ELSE LET key == CHOOSE k \in CablesLookup(a.type) : TRUE
            IN Built(self0 @@ [stage1_load |-> CRYOCABLE_LOAD[key][1],
                               stage2_load |-> CRYOCABLE_LOAD[key][2]])

Hot2ColdNetwork_init(a) ==
    LET route == Route(a.hot_temp, a.cold_temp, Hot2ColdRoutes)
    IN IF route = "" THEN Failed("AssertionError")
       ELSE Built([datawidth |-> a.datawidth, hot_temp |-> a.hot_temp,
                   cold_temp |-> a.cold_temp,
                   channel_count |-> a.channel_count,
                   electrical_only |-> a.electrical_only,
                   length |-> a.length, v_load |-> a.v_load,
                   freq |-> [period |-> a.global_cycle_seconds],
                   route |-> route])

\* mutant: the option list lacks one of the amplifiers read() implements
amp_type_options_NoNTron == {"aqfp_diffamp", "JLD_diffamp"}

amp_type_options == {"aqfp_diffamp", "JLD_diffamp", "nTron"}

\* Cold2HotNetwork.__init__ up to its last statement
Cold2HotNetwork_init(a) ==
    LET route == Route(a.hot_temp, a.cold_temp, Cold2HotRoutes)
        period == a.global_cycle_seconds
    IN IF a.amp_type \notin amp_type_options THEN Failed("AssertionError")
       ELSE IF route = "" THEN Failed("AssertionError")
       ELSE Built([datawidth |-> a.datawidth, hot_temp |-> a.hot_temp,
                   cold_temp |-> a.cold_temp,
                   channel_count |-> a.channel_count,
                   amp_type |-> a.amp_type,
                   freq |-> [period |-> period],
                   route |-> route,
                   \* diff_amp_power = 7.25e-3 / 17 W
                   diff_amp_energy |-> Q(period, "7.25mW/17 * T"),
                   \* lna_power = 3.3 * 10.5e-3 W = 346500 * 0.1 uW
                   lna_energy |-> Q(346500 * period, "0.1uW * T")])

\* ---------------------------------------------------------- chip2chip.py
\* mutant: the route the parent classified is kept
ColdChip2ChipNetwork_init_ParentRoute(a) ==
    Cold2HotNetwork_init(
        [global_cycle_seconds |-> a.global_cycle_seconds,
         datawidth |-> a.datawidth,
         hot_temp |-> a.cold_temp,
         cold_temp |-> a.cold_temp,
         channel_count |-> a.channel_count,
         amp_type |-> a.amp_type])

ColdChip2ChipNetwork_init(a) ==
    LET super == Cold2HotNetwork_init(
                     [global_cycle_seconds |-> a.global_cycle_seconds,
                      datawidth |-> a.datawidth,
                      hot_temp |-> a.cold_temp,
                      cold_temp |-> a.cold_temp,
                      channel_count |-> a.channel_count,
                      amp_type |-> a.amp_type])
    IN IF super.status # "constructed" THEN super
       ELSE Built([super.self EXCEPT !.route = "2->1"])

\* ----------------------------------------------------- aqfp_components.py
FORECAST_OPTIONS == {"conservative", "moderate", "aggressive"}

\* cell area, in units of 1e-13 m^2
CELL_NODE_LOOKUP ==
    ("v1.0" :> [area |-> 4000]) @@
    ("vInf.0" :> [area |-> 1000]) @@
    ("vInf.1" :> [area |-> 45])

\* SRLoop.get_device_count
SRLoop_get_device_count(self) ==
    LET qfp_per_cell == self.cell_bit_depth * 4 + 5
    IN [count |-> self.array_w * self.array_h * qfp_per_cell, self |-> self]

\* mutant: the forecast given to the constructor is kept
IntAddRCSA_get_device_count_KeepsForecast(self) ==
    LET fourbit == 183
        m == self.depth \div 4
    IN [count |-> m * fourbit + 128 * ((m * (m - 1)) \div 2)
                      + 64 * ((m * (m - 1)) \div 2),
        self |-> self]

\* IntAddRCSA.get_device_count: sets self.forecast
IntAddRCSA_get_device_count(self) ==
    LET self1 == [self EXCEPT !.forecast = "conservative"]
        fourbit == 183
        m == self.depth \div 4
    IN [count |-> m * fourbit + 128 * ((m * (m - 1)) \div 2)
                      + 64 * ((m * (m - 1)) \div 2),
        self |-> self1]

\* IntMult.get_device_count: 4 ** log2(depth / 4) * 1052
IntMult_get_device_count(self) ==
    LET m == self.depth \div 4
    IN [count |-> m * m * 1052, self |-> self]

get_device_count(class, self) ==
    IF class = "SRLoop" THEN SRLoop_get_device_count(self)
    ELSE IF class = "IntAddRCSA" THEN IntAddRCSA_get_device_count(self)
    ELSE IntMult_get_device_count(self)

\* str(cell_node) in CELL_NODE_LOOKUP.keys()
CellNodeSupported(cell_node) == cell_node \in DOMAIN CELL_NODE_LOOKUP

\* AQFPEstimator.__init__, self0 holding what the subclass set before it
AQFPEstimator_init(class, self0, a) ==
    IF ~CellNodeSupported(a.cell_node) THEN Failed("AssertionError")
    ELSE IF a.forecast \notin FORECAST_OPTIONS THEN Failed("AssertionError")
    ELSE LET self1 == self0 @@
                 [cell_node |-> CELL_NODE_LOOKUP[a.cell_node],
                  forecast |-> a.forecast,
                  clock_derate |-> a.clock_derate,
                  frequency |->
                      [period |-> a.global_cycle_seconds * a.clock_derate],
                  phase_count |-> a.phase_count]
             dc == get_device_count(class, self1)
         IN Built(dc.self @@ [qfp_count |-> dc.count])

SRLoop_init(a) ==
    AQFPEstimator_init("SRLoop",
        [cell_bit_depth |-> a.cell_bit_depth, array_w |-> a.array_w,
         array_h |-> a.array_h], a)

IntAddRCSA_init(a) ==
    IF a.depth % 4 # 0 THEN Failed("AssertionError")
    ELSE AQFPEstimator_init("IntAddRCSA", [depth |-> a.depth], a)

IntMult_init(a) ==
    IF a.depth % 4 # 0 THEN Failed("AssertionError")
    ELSE AQFPEstimator_init("IntMult", [depth |-> a.depth], a)

\* ----------------------------------------------------------- the methods
\* mutant: the default length replaces a length given to the constructor
Hot2ColdNetwork_read_AlwaysDefault(self) ==
    IF self.route = "stationary" THEN Returned(Zero, self)
    ELSE LET table == IF self.cold_temp > 50 THEN "300K" ELSE "4K"
             length == IF self.route = "RT->2" THEN 560
                       ELSE IF self.route = "1->2" THEN 240
                       ELSE 320
             e_diss == Q(1, <<"e_diss", self.v_load, table,
                              self.freq.period, length>>)
         IN Returned(Times(e_diss, self.datawidth),
                     [self EXCEPT !.length = length])

\* Hot2ColdNetwork.read: sets self.length when it is 0; e_diss is a function
\* of v_load, the S21 table chosen by cold_temp, the frequency and the length
Hot2ColdNetwork_read(self) ==
    IF self.route = "stationary" THEN Returned(Zero, self)
    ELSE LET table == IF self.cold_temp > 50 THEN "300K" ELSE "4K"
             length == IF self.length # 0 THEN self.length
                       ELSE IF self.route = "RT->2" THEN 560
                       ELSE IF self.route = "1->2" THEN 240
                       ELSE IF self.route = "RT->1" THEN 320
                       ELSE self.length
             e_diss == Q(1, <<"e_diss", self.v_load, table,
                              self.freq.period, length>>)
         IN Returned(Times(e_diss, self.datawidth),
                     [self EXCEPT !.length = length])

\* JLD_power = 60e-6 W, aqfp_power = 3e-7 W, ntron_energy = 8e-18 J
AmplifierEnergy(self) ==
    IF self.amp_type = "aqfp_diffamp" THEN Q(3 * self.freq.period, "0.1uW * T")
    ELSE IF self.amp_type = "JLD_diffamp"
         THEN Q(600 * self.freq.period, "0.1uW * T")
    ELSE Q(8, "1e-18 J")

\* aqfp_diffamp_energy, JLD_diffamp_energy, nTron_energy
diffamp_energy(self) ==
    IF self.route = "2->RT"
    THEN Times(Plus(Plus(AmplifierEnergy(self), self.diff_amp_energy),
                    self.lna_energy), self.datawidth)
    ELSE IF self.route = "2->1"
    THEN Times(Plus(AmplifierEnergy(self), self.diff_amp_energy),
               self.datawidth)
    ELSE Zero

\* mutant: the second amplification to room temperature is left out
Cold2HotNetwork_read_NoLNA(self) ==
    IF self.route = "stationary" THEN Returned(Zero, self)
    ELSE IF self.route = "1->RT"
    THEN Returned(Times(self.lna_energy, self.datawidth), self)
    ELSE Returned(diffamp_energy([self EXCEPT !.route = "2->1"]), self)

Cold2HotNetwork_read(self) ==
    IF self.route = "stationary" THEN Returned(Zero, self)
    ELSE IF self.route = "1->RT"
    THEN Returned(Times(self.lna_energy, self.datawidth), self)
    ELSE IF self.amp_type \in {"aqfp_diffamp", "JLD_diffamp", "nTron"}
    THEN Returned(diffamp_energy(self), self)
    ELSE Returned(Zero, self)

nMem_read(self) ==
    \* 31e-15 * width + 185e-6 * 67.5 * width
    Returned(Plus(Q(31 * self.width, "1e-15 J"),
                  Q(124875 * self.width, "1e-7 J")), self)

nMem_write(self) ==
    \* 46e-15 * width + 460e-6 * 67.5 * width
    Returned(Plus(Q(46 * self.width, "1e-15 J"),
                  Q(310500 * self.width, "1e-7 J")), self)

DLMPassive_write(self) ==
    \* 9.57e-19 * bias_overhead * line_count
    Returned(Q(957 * self.bias_overhead_x2 * self.line_count, "0.5e-21 J"),
             self)

CryoSRAM_update(self) == CellEnergy(CryoSRAM_cell2energies, self, 2, "1e-15 J")

read(class, self) ==
    CASE class = "nMem" -> nMem_read(self)
      [] class = "CryoDRAM" ->
            CellEnergy(CryoDRAM_cell2energies, self, 0, "1e-16 J")
      [] class = "CryoSRAM" ->
            CellEnergy(CryoSRAM_cell2energies, self, 0, "1e-15 J")
      [] class = "Hot2ColdNetwork" -> Hot2ColdNetwork_read(self)
      [] class \in {"Cold2HotNetwork", "ColdChip2ChipNetwork"} ->
            Cold2HotNetwork_read(self)
      [] OTHER -> Returned(Zero, self)

write(class, self) ==
    CASE class = "nMem" -> nMem_write(self)
      [] class = "DLMPassive" -> DLMPassive_write(self)
      [] class = "CryoDRAM" ->
            CellEnergy(CryoDRAM_cell2energies, self, 1, "1e-16 J")
      [] class = "CryoSRAM" ->
            CellEnergy(CryoSRAM_cell2energies, self, 1, "1e-15 J")
      [] class = "ColdChip2ChipNetwork" -> Cold2HotNetwork_read(self)
      [] class = "SRLoop" -> Returned(Zero, self)
      [] OTHER -> Returned(Zero, self)

update(class, self) ==
    CASE class = "CryoDRAM" ->
            CellEnergy(CryoDRAM_cell2energies, self, 2, "1e-16 J")
      [] class = "CryoSRAM" -> CryoSRAM_update(self)
      [] class = "ColdChip2ChipNetwork" -> Cold2HotNetwork_read(self)
      [] class = "Cold2HotNetwork" -> write(class, self)
      [] class = "SRLoop" ->
            \* return self.read() + self.write()
            LET r == read(class, self)
                w == write(class, r.self)
            IN Returned(Plus(r.value, w.value), w.self)
      [] OTHER -> Returned(Zero, self)

\* VTcellRAM.get_area: return 0
VTcellRAM_get_area_Bits(self) == Returned(Q(self.width * self.depth, "bit"), self)

VTcellRAM_get_area(self) == Returned(Zero, self)

\* DLMPassive.leak: pulse_prop (6.19e-18) * bias_overhead * line_count *
\* (global_cycle_seconds / time_bin)
DLMPassive_leak(self) ==
    Returned(Q(619 * self.bias_overhead_x2 * self.line_count
                   * (self.global_cycle_seconds \div self.time_bin),
               "0.5e-20 J"), self)

\* DLMPassive.get_area: time_bin * pulse_speed * pitch * line_depth *
\* line_count, pulse_speed and pitch those of the cell type
DLMPassive_get_area(self) ==
    Returned(Q(self.time_bin * self.line_depth * self.line_count,
               <<"pulse_speed * pitch * T", self.type>>), self)

\* nMem.get_area: width * depth / 2.6e10
nMem_get_area(self) == Returned(Q(self.width * self.depth, "1/2.6e10 m^2"), self)

\* area per cell, in units of 1e-3 um^2
CryoDRAM_cell2area ==
    ("2T_NW-PR" :> 84) @@ ("3T_NW-PR" :> 242) @@ ("3T_PW-PR" :> 254)

CryoSRAM_cell2area == ("6T_static" :> 435)

\* self.cell2area[self.type] * self.width * self.depth
CellArea(table, self) ==
    Returned(Q(table[self.type] * self.width * self.depth, "1e-3 um^2"), self)

\* Cables.leak(global_cycle_seconds): the argument is not used
Cables_leak_PerCall(self, global_cycle_seconds) ==
    Returned(Q(global_cycle_seconds, "T"), self)

\* mutant: the route RT->2 carries the load of the first stage only
Cables_leak_FirstStageOnly(self, global_cycle_seconds) ==
    IF self.electrical_only THEN Returned(Zero, self)
    ELSE LET heatload == IF self.route = "stationary" THEN 0
                         ELSE IF self.route = "1->2" THEN self.stage2_load
                         ELSE self.stage1_load
         IN Returned(Q(heatload * self.freq.period * self.channel_count,
                       "1e-6 W * T"), self)

\* heatload is assigned by four tests in sequence and is unbound when none
\* of them matches; (heatload / self.freq) * self.channel_count
Cables_leak(self, global_cycle_seconds) ==
    IF self.electrical_only THEN Returned(Zero, self)
    ELSE LET unbound == -1
             h1 == IF self.route = "RT->1" THEN self.stage1_load ELSE unbound
             h2 == IF self.route = "1->2" THEN self.stage2_load ELSE h1
             h3 == IF self.route = "RT->2"
                   THEN self.stage1_load + self.stage2_load ELSE h2
             heatload == IF self.route = "stationary" THEN 0 ELSE h3
         IN IF heatload = unbound THEN Raised("UnboundLocalError", self)
            ELSE Returned(Q(heatload * self.freq.period * self.channel_count,
                            "1e-6 W * T"), self)

\* Cold2HotNetwork.get_area with JLD_diffamp_area, aqfp_diffamp_area and
\* nTron_area, in units of 1e-13 m^2
Cold2HotNetwork_get_area(self) ==
    IF self.route = "stationary" THEN Returned(Zero, self)
    ELSE IF self.amp_type = "aqfp_diffamp"
    THEN Returned(Q(4000 * self.channel_count, "1e-13 m^2"), self)
    ELSE IF self.amp_type = "JLD_diffamp"
    THEN Returned(Q(588000 * self.channel_count, "1e-13 m^2"), self)
    ELSE IF self.amp_type = "nTron"
    THEN Returned(Q(self.channel_count, "1e-13 m^2"), self)
    ELSE Returned(Zero, self)

\* AQFPEstimator.leak: qfp_count * lookup_energy(frequency) / clock_derate
AQFPEstimator_leak(self) ==
    Returned(Q(self.qfp_count,
               <<"E_sw(1/period) / clock_derate", self.frequency.period,
                 self.clock_derate>>), self)

\* AQFPEstimator.get_area: qfp_count * cell area * routing overhead, in
\* units of 1e-14 m^2
AQFPEstimator_get_area(self) ==
    LET routing_x10 == IF self.forecast = "conservative" THEN 13
                       ELSE IF self.forecast = "moderate" THEN 12 ELSE 11
    IN Returned(Q(self.qfp_count * self.cell_node.area * routing_x10,
                  "1e-14 m^2"), self)

\* the classes whose leak takes global_cycle_seconds
LeakTakesCycleSeconds == {"Cables", "Hot2ColdNetwork", "Cold2HotNetwork"}

leak(class, self, global_cycle_seconds) ==
    CASE class = "DLMPassive" -> DLMPassive_leak(self)
      [] class = "Cables" -> Cables_leak(self, global_cycle_seconds)
      [] class \in {"SRLoop", "IntAddRCSA", "IntMult"} ->
            AQFPEstimator_leak(self)
      [] OTHER -> Returned(Zero, self)

get_area(class, self) ==
    CASE class = "VTcellRAM" -> VTcellRAM_get_area(self)
      [] class = "DLMPassive" -> DLMPassive_get_area(self)
      [] class = "nMem" -> nMem_get_area(self)
      [] class = "CryoDRAM" -> CellArea(CryoDRAM_cell2area, self)
      [] class = "CryoSRAM" -> CellArea(CryoSRAM_cell2area, self)
      [] class = "Cold2HotNetwork" -> Cold2HotNetwork_get_area(self)
      [] class \in {"SRLoop", "IntAddRCSA", "IntMult"} ->
            AQFPEstimator_get_area(self)
      [] OTHER -> Returned(Zero, self)

\* mutant: an addition dissipates the switching energy of every device
add_PerDevice(self) == Returned(Q(self.qfp_count, "E_sw"), self)

\* IntAddRCSA.add: return 0
add(self) == Returned(Zero, self)

\* mult of the RQL IntMult
RQL_IntMult_mult_Depth(self) == Returned(Q(self.depth, "J"), self)

RQL_IntMult_mult(self) == Returned(Zero, self)

\* IntMult.mult, of aqfp_components.py and of RQL_components.py
mult(class, self) ==
    IF class = "RQL_IntMult" THEN RQL_IntMult_mult(self)
    ELSE Returned(Zero, self)

\* RQL_components.py: IntMult.__init__ does not call super().__init__() and
\* then reads self.logger, which the base class Estimator provides: whether
\* the attribute exists without the base initialiser is the library's
\* matter, so both outcomes are allowed
RQL_IntMult_init(a, has_logger) ==
    IF has_logger THEN Built([depth |-> a.depth])
    ELSE Failed("AttributeError")

\* the classes that define leak and get_area
LeakAreaClasses ==
    {"VTcellRAM", "DLMPassive", "nMem", "AQFP_Dlatch", "CryoDRAM", "CryoSRAM",
     "Cables", "Hot2ColdNetwork", "Cold2HotNetwork", "ColdChip2ChipNetwork",
     "SRLoop", "IntAddRCSA", "IntMult"}

\* RQL_components.py: IntMult defines neither leak nor get_area; a call
\* reaches whatever the base class Estimator has, which may return a number
\* or raise
InheritedOutcomes(self) ==
    {Returned(Zero, self), Returned(Q(1, "value of the base class"), self),
     Raised("raised by the base class", self)}

\* the classes that define read, write and update
ReadWriteUpdateClasses ==
    {"VTcellRAM", "DLMPassive", "nMem", "AQFP_Dlatch", "CryoDRAM", "CryoSRAM",
     "Cables", "Hot2ColdNetwork", "Cold2HotNetwork", "ColdChip2ChipNetwork",
     "SRLoop"}

\* ------------------------------------------------- constructor arguments
MemoryArguments ==
    [global_cycle_seconds : CycleSeconds, width : Widths, depth : Depths]

DLMPassiveArguments ==
    [global_cycle_seconds : CycleSeconds, line_depth : Depths,
     line_count : Widths, time_bin : {None, 1},
     cell_type : DLMPassive_cell2density \cup {"Al_mature"}]

CryoDRAMArguments ==
    [global_cycle_seconds : CycleSeconds, width : Widths, depth : Depths,
     cell_type : DOMAIN CryoDRAM_cell2energies \cup {"1T_NW-PR"}]

CryoSRAMArguments ==
    [global_cycle_seconds : CycleSeconds, width : Widths, depth : Depths,
     cell_type : DOMAIN CryoSRAM_cell2energies \cup {"8T_static"}]

CablesArguments ==
    [global_cycle_seconds : CycleSeconds,
     hot_temp : NetworkTemperatures, cold_temp : NetworkTemperatures,
     channel_count : ChannelCounts, type : CableTypes,
     electrical_only : BOOLEAN, stage1_load : {0, 5}, stage2_load : {0, 7}]

Hot2ColdNetworkArguments ==
    [global_cycle_seconds : CycleSeconds, datawidth : Widths,
     hot_temp : NetworkTemperatures, cold_temp : NetworkTemperatures,
     channel_count : ChannelCounts, electrical_only : BOOLEAN,
     length : {0, 100}, v_load : {"2.5e-3"}]

AmplifierTypes == {"aqfp_diffamp", "JLD_diffamp", "nTron", "HEMT"}

Cold2HotNetworkArguments ==
    [global_cycle_seconds : CycleSeconds, datawidth : Widths,
     hot_temp : NetworkTemperatures, cold_temp : NetworkTemperatures,
     channel_count : ChannelCounts, amp_type : AmplifierTypes]

ColdChip2ChipNetworkArguments ==
    [global_cycle_seconds : CycleSeconds, datawidth : Widths,
     cold_temp : NetworkTemperatures,
     channel_count : ChannelCounts, amp_type : AmplifierTypes]

CellNodes == {"v1.0", "vInf.0", "vInf.1", "v2.0"}

Forecasts == {"conservative", "moderate", "aggressive", "optimistic"}

AdderDepths == {4, 6, 8}

SRLoopArguments ==
    [cell_bit_depth : Depths, array_w : Widths, array_h : Widths,
     cell_node : CellNodes, global_cycle_seconds : CycleSeconds,
     clock_derate : {1, 2}, forecast : Forecasts, phase_count : {4}]

AdderArguments ==
    [depth : AdderDepths, cell_node : CellNodes,
     global_cycle_seconds : CycleSeconds, clock_derate : {1, 2},
     forecast : Forecasts, phase_count : {4}]

\* ------------------------------------------------------------- the steps
NoArguments == [no_arguments |-> TRUE]

NoReturn == [status |-> "", value |-> Zero]

EstIdle ==
    /\ est_class = ""
    /\ est_args = NoArguments
    /\ est_self = NoSelf
    /\ est_pc = "idle"
    /\ est_call = ""
    /\ est_ret = NoReturn

EstInit ==
    /\ est_class = ""
    /\ est_args = NoArguments
    /\ est_self = NoSelf
    /\ est_pc = "new"
    /\ est_call = ""
    /\ est_ret = NoReturn

\* what the statement x = Class(**args) leaves behind
Construct(class, args, out) ==
    /\ est_class' = class
    /\ est_args' = args
    /\ est_self' = out.self
    /\ est_pc' = out.status
    /\ UNCHANGED <<est_call, est_ret>>
    /\ UNCHANGED not_est_vars

construct_VTcellRAM ==
    /\ est_pc = "new"
    /\ \E a \in MemoryArguments : Construct("VTcellRAM", a, VTcellRAM_init(a))

construct_DLMPassive ==
    /\ est_pc = "new"
    /\ \E a \in DLMPassiveArguments :
          Construct("DLMPassive", a, DLMPassive_init(a))

construct_nMem ==
    /\ est_pc = "new"
    /\ \E a \in MemoryArguments : Construct("nMem", a, nMem_init(a))

construct_AQFP_Dlatch ==
    /\ est_pc = "new"
    /\ \E a \in MemoryArguments :
          Construct("AQFP_Dlatch", a, AQFP_Dlatch_init(a))

construct_CryoDRAM ==
    /\ est_pc = "new"
    /\ \E a \in CryoDRAMArguments : Construct("CryoDRAM", a, CryoDRAM_init(a))

construct_CryoSRAM ==
    /\ est_pc = "new"
    /\ \E a \in CryoSRAMArguments : Construct("CryoSRAM", a, CryoSRAM_init(a))

construct_Cables ==
    /\ est_pc = "new"
    /\ \E a \in CablesArguments : Construct("Cables", a, Cables_init(a))

construct_Hot2ColdNetwork ==
    /\ est_pc = "new"
    /\ \E a \in Hot2ColdNetworkArguments :
          Construct("Hot2ColdNetwork", a, Hot2ColdNetwork_init(a))

construct_Cold2HotNetwork ==
    /\ est_pc = "new"
    /\ \E a \in Cold2HotNetworkArguments :
          Construct("Cold2HotNetwork", a, Cold2HotNetwork_init(a))

construct_ColdChip2ChipNetwork ==
    /\ est_pc = "new"
    /\ \E a \in ColdChip2ChipNetworkArguments :
          Construct("ColdChip2ChipNetwork", a, ColdChip2ChipNetwork_init(a))

construct_SRLoop ==
    /\ est_pc = "new"
    /\ \E a \in SRLoopArguments : Construct("SRLoop", a, SRLoop_init(a))

construct_IntAddRCSA ==
    /\ est_pc = "new"
    /\ \E a \in AdderArguments : Construct("IntAddRCSA", a, IntAddRCSA_init(a))

construct_IntMult ==
    /\ est_pc = "new"
    /\ \E a \in AdderArguments : Construct("IntMult", a, IntMult_init(a))

\* what a call of `method` that ended with `out` leaves behind
Call(method, out) ==
    /\ est_call' = method
    /\ est_ret' = [status |-> out.status, value |-> out.value]
    /\ est_self' = out.self
    /\ UNCHANGED <<est_class, est_args, est_pc>>
    /\ UNCHANGED not_est_vars

call_read ==
    /\ est_pc = "constructed"
    /\ est_class \in ReadWriteUpdateClasses \cup {"IntAddRCSA", "IntMult"}
    /\ Call("read", read(est_class, est_self))

call_write ==
    /\ est_pc = "constructed"
    /\ est_class \in ReadWriteUpdateClasses
    /\ Call("write", write(est_class, est_self))

call_update ==
    /\ est_pc = "constructed"
    /\ est_class \in ReadWriteUpdateClasses
    /\ Call("update", update(est_class, est_self))

RQLArguments == [depth : AdderDepths]

construct_RQL_IntMult ==
    /\ est_pc = "new"
    /\ \E a \in RQLArguments, has_logger \in BOOLEAN :
          Construct("RQL_IntMult", a, RQL_IntMult_init(a, has_logger))

call_leak ==
    /\ est_pc = "constructed"
    /\ est_class \in LeakAreaClasses
    /\ \E g \in CycleSeconds :
          /\ est_class \notin LeakTakesCycleSeconds => g = 1
          /\ Call("leak", leak(est_class, est_self, g))

call_get_area ==
    /\ est_pc = "constructed"
    /\ est_class \in LeakAreaClasses
    /\ Call("get_area", get_area(est_class, est_self))

call_inherited ==
    /\ est_pc = "constructed"
    /\ est_class = "RQL_IntMult"
    /\ \E method \in {"leak", "get_area"}, out \in InheritedOutcomes(est_self) :
          Call(method, out)

call_add ==
    /\ est_pc = "constructed"
    /\ est_class = "IntAddRCSA"
    /\ Call("add", add(est_self))

call_mult ==
    /\ est_pc = "constructed"
    /\ est_class \in {"IntMult", "RQL_IntMult"}
    /\ Call("mult", mult(est_class, est_self))

(***************************************************************************)
(* scripts/utils.py: get_run_dir, generate_result, parallel                *)
(*                                                                         *)
(* A task is one call of generate_result; task[i].pc names the statement   *)
(* it executes next.  A statement either completes or raises; what is      *)
(* raised is an Exception (caught by `except Exception`) or an exception   *)
(* outside Exception, such as KeyboardInterrupt or SystemExit (not caught).*)
(***************************************************************************)
SubArchitectures == {"a", "b"}

Workers == 1 .. MaxWorkers

\* the identity of the thread and of the process a worker runs tasks in:
\* distinct workers differ in at least one of the two
threading_get_ident(w) == 1 + (w % 2)

os_getpid(w) == 1 + (w \div 2)

\* mutant: the directory is keyed by the sub-architecture only
get_run_dir_BySubArch(sub_arch, w) == <<sub_arch, 0, 0>>

\* get_run_dir: f"{sub_arch}_{threading.get_ident()}_{os.getpid()}"
get_run_dir(sub_arch, w) == <<sub_arch, threading_get_ident(w), os_getpid(w)>>

NoDir == <<>>

\* the statements of the try block, in order
Statements ==
    <<"get_spec", "get_run_dir", "call_mapper", "clear_zero_energies",
      "clear_zero_areas", "add_cooling_overhead", "return">>

Raisable == {"Exception", "BaseException"}

\* the statement after `stmt`; `if add_cooling:` skips the cooling step
NextStatement_AlwaysCool(stmt, add_cooling) ==
    LET i == CHOOSE k \in DOMAIN Statements : Statements[k] = stmt
    IN Statements[i + 1]

NextStatement(stmt, add_cooling) ==
    LET i == CHOOSE k \in DOMAIN Statements : Statements[k] = stmt
        n == Statements[i + 1]
    IN IF n = "add_cooling_overhead" /\ ~add_cooling THEN "return" ELSE n

\* the except clause: `except Exception as e`, `raise e` unless
\* return_none_on_fail, else `return None`
Except_CatchAll(kind, return_none_on_fail) ==
    IF return_none_on_fail THEN [pc |-> "returned", outcome |-> "None"]
    ELSE [pc |-> "raised", outcome |-> kind]

Except(kind, return_none_on_fail) ==
    IF kind = "Exception" /\ return_none_on_fail
    THEN [pc |-> "returned", outcome |-> "None"]
    ELSE [pc |-> "raised", outcome |-> kind]

Running(t) == t.pc \in {Statements[k] : k \in DOMAIN Statements}

Ended(t) == t.pc \in {"returned", "raised"}

QueuedTask ==
    [pc |-> "queued", worker |-> 0, out_dir |-> NoDir, done |-> <<>>,
     raised |-> "", outcome |-> ""]
\* worker, out_dir: where the call runs, while it runs; done: what has been
\* done to the call's local `result` so far (dropped with it when the call
\* raises or returns None); raised: what a statement of the try block raised;
\* outcome: "result", "None", or the exception that left the call

JobArguments ==
    [sub_architecture : SubArchitectures, add_cooling : BOOLEAN,
     return_none_on_fail : BOOLEAN]

SweepIdle ==
    /\ jobs = <<>>
    /\ task = <<>>
    /\ fs = {}
    /\ par_pc = "idle"
    /\ par_result = <<>>

\* parallel(jobs) has been called with 1 .. MaxJobs sweep points, which
\* differ in their sub-architecture and share the two flags
SweepInit ==
    /\ \E n \in 1 .. MaxJobs, add_cooling \in BOOLEAN, none_on_fail \in BOOLEAN :
          jobs \in [1 .. n -> {a \in JobArguments :
                                 /\ a.add_cooling = add_cooling
                                 /\ a.return_none_on_fail = none_on_fail}]
    /\ task = [i \in DOMAIN jobs |-> QueuedTask]
    /\ fs = {}
    /\ par_pc = "running"
    /\ par_result = <<>>

\* a free worker of the pool takes a sweep point and enters generate_result
task_starts ==
    /\ par_pc = "running"
    /\ \E i \in DOMAIN task, w \in Workers :
          /\ task[i].pc = "queued"
          /\ \A j \in DOMAIN task : Running(task[j]) => task[j].worker # w
          /\ task' = [task EXCEPT ![i].pc = "get_spec", ![i].worker = w]
    /\ UNCHANGED <<jobs, fs, par_pc, par_result>>
    /\ UNCHANGED not_sweep_vars

\* the call of task i is over: its directory stays, holding the files of no
\* task that is still running (owner 0)
Release(files, i) ==
    {IF f[2] = i THEN <<f[1], 0>> ELSE f : f \in files}

\* task i leaves statement stmt: completed, or raised `kind`
Leave(i, stmt, kind, out_dir, files) ==
    LET t == task[i]
        e == Except(kind, jobs[i].return_none_on_fail)
    IN /\ t.pc = stmt
       /\ task' = [task EXCEPT ![i] =
             IF kind = "ok"
             THEN [t EXCEPT !.pc = NextStatement(stmt, jobs[i].add_cooling),
                            !.out_dir = out_dir,
                            !.done = Append(t.done, stmt)]
             ELSE [QueuedTask EXCEPT !.pc = e.pc, !.raised = kind,
                                     !.outcome = e.outcome]]
       /\ fs' = IF kind = "ok" THEN files ELSE Release(files, i)
       /\ UNCHANGED <<jobs, par_pc, par_result>>
       /\ UNCHANGED not_sweep_vars

\* spec = get_spec(...); spec.variables["BATCH_SIZE"] = batch_size
step_get_spec ==
    \E i \in DOMAIN task, kind \in {"ok"} \cup Raisable :
        Leave(i, "get_spec", kind, task[i].out_dir, fs)

\* out_dir = get_run_dir(sub_architecture): rmtree if it exists, makedirs
step_get_run_dir ==
    \E i \in DOMAIN task, kind \in {"ok"} \cup Raisable :
        LET d == get_run_dir(jobs[i].sub_architecture, task[i].worker)
        IN IF kind = "ok"
           THEN Leave(i, "get_run_dir", kind, d,
                      {f \in fs : f[1] # d} \cup {<<d, i>>})
           ELSE Leave(i, "get_run_dir", kind, task[i].out_dir, fs)

\* result = tl.call_mapper(spec, output_dir=out_dir, ...)
step_call_mapper ==
    \E i \in DOMAIN task, kind \in {"ok"} \cup Raisable :
        Leave(i, "call_mapper", kind, task[i].out_dir, fs)

step_clear_zero_energies ==
    \E i \in DOMAIN task, kind \in {"ok"} \cup Raisable :
        Leave(i, "clear_zero_energies", kind, task[i].out_dir, fs)

step_clear_zero_areas ==
    \E i \in DOMAIN task, kind \in {"ok"} \cup Raisable :
        Leave(i, "clear_zero_areas", kind, task[i].out_dir, fs)

\* add_cooling_overhead(result, spec)
step_add_cooling_overhead ==
    \E i \in DOMAIN task, kind \in {"ok"} \cup Raisable :
        Leave(i, "add_cooling_overhead", kind, task[i].out_dir, fs)

\* return result
task_returns ==
    /\ \E i \in DOMAIN task :
          /\ task[i].pc = "return"
          /\ task' = [task EXCEPT ![i].pc = "returned",
                                  ![i].outcome = "result",
                                  ![i].worker = 0, ![i].out_dir = NoDir]
          /\ fs' = Release(fs, i)
    /\ UNCHANGED <<jobs, par_pc, par_result>>
    /\ UNCHANGED not_sweep_vars

\* every task has returned: parallel returns their outcomes, in order
parallel_returns ==
    /\ par_pc = "running"
    /\ \A i \in DOMAIN task : task[i].pc = "returned"
    /\ par_pc' = "returned"
    /\ par_result' = [i \in DOMAIN task |-> task[i].outcome]
    /\ UNCHANGED <<jobs, task, fs>>
    /\ UNCHANGED not_sweep_vars

\* a task has raised: parallel raises to its caller
parallel_raises ==
    /\ par_pc = "running"
    /\ \E i \in DOMAIN task : task[i].pc = "raised"
    /\ par_pc' = "raised"
    /\ UNCHANGED <<jobs, task, fs, par_result>>
    /\ UNCHANGED not_sweep_vars

(***************************************************************************)
(* Specifications                                                          *)
(***************************************************************************)
CoolingNext == add_cooling_overhead

InitCooling ==
    CoolingInit /\ KeysIdle /\ EstIdle /\ SweepIdle /\ PlotsIdle

SpecCooling == InitCooling /\ [][CoolingNext]_vars

KeysNext ==
    \/ consolidate_keys_returns
    \/ consolidate_keys_asserts
    \/ consolidate_keys_raises

InitKeys ==
    KeysInit /\ CoolingIdle /\ EstIdle /\ SweepIdle /\ PlotsIdle

SpecKeys == InitKeys /\ [][KeysNext]_vars

EstimatorsNext ==
    \/ construct_VTcellRAM
    \/ construct_DLMPassive
    \/ construct_nMem
    \/ construct_AQFP_Dlatch
    \/ construct_CryoDRAM
    \/ construct_CryoSRAM
    \/ construct_Cables
    \/ construct_Hot2ColdNetwork
    \/ construct_Cold2HotNetwork
    \/ construct_ColdChip2ChipNetwork
    \/ construct_SRLoop
    \/ construct_IntAddRCSA
    \/ construct_IntMult
    \/ call_read
    \/ call_write
    \/ call_update
    \/ construct_RQL_IntMult
    \/ call_leak
    \/ call_get_area
    \/ call_inherited
    \/ call_add
    \/ call_mult

InitEstimators ==
    EstInit /\ CoolingIdle /\ KeysIdle /\ SweepIdle /\ PlotsIdle

SpecEstimators == InitEstimators /\ [][EstimatorsNext]_vars

SweepNext ==
    \/ task_starts
    \/ step_get_spec
    \/ step_get_run_dir
    \/ step_call_mapper
    \/ step_clear_zero_energies
    \/ step_clear_zero_areas
    \/ step_add_cooling_overhead
    \/ task_returns
    \/ parallel_returns
    \/ parallel_raises

InitSweep ==
    SweepInit /\ CoolingIdle /\ KeysIdle /\ EstIdle /\ PlotsIdle

SpecSweep == InitSweep /\ [][SweepNext]_vars

PlotsNext ==
    \/ call_bar_side_by_side
    \/ call_bar_stacked
    \/ call_plot
    \/ call_scatter

InitPlots ==
    PlotsInit /\ CoolingIdle /\ KeysIdle /\ EstIdle /\ SweepIdle

SpecPlots == InitPlots /\ [][PlotsNext]_vars

(***************************************************************************)
(* Properties of add_cooling_overhead                                      *)
(***************************************************************************)
Called == cool_pc \in {"returned", "TypeError"}

ResultKeys == DOMAIN per_component_energy

HasNode(k) == \E i \in DOMAIN nodes : nodes[i].name = k

NodeAttributes(k) ==
    nodes[CHOOSE i \in DOMAIN nodes : nodes[i].name = k].attributes

\* the specification gives component k a temperature value (a number or None)
Reported(k) == HasNode(k) /\ "temperature" \in DOMAIN NodeAttributes(k)

\* the specification gives component k a temperature in kelvin
HasKelvin(k) == Reported(k) /\ NodeAttributes(k).temperature # None

Kelvin(k) == NodeAttributes(k).temperature

Below10(k) == HasKelvin(k) /\ Kelvin(k) < 10

FirstStage(k) == HasKelvin(k) /\ Kelvin(k) > 10 /\ Kelvin(k) < 80

NoSecondStage == \A k \in ResultKeys : ~Below10(k)

\* energy_before[k] / (cycles * cycle_seconds) > 80
PowerExceeds80(k) == energy_before[k] > 80 * 4 * cycles * cycle_seconds

Times1000(k) == per_component_energy[k] = 1000 * energy_before[k]

\* 93.75 = 375 / 4
Times9375(k) == 4 * per_component_energy[k] = 375 * energy_before[k]

Unchanged(k) == per_component_energy[k] = energy_before[k]

\* C1: after a call of add_cooling_overhead, every component whose
\* temperature is below 10K has exactly 1000 times the energy it had before
\* the call, whatever other components are present.
C1_Sub10KTimes1000 ==
    Called => \A k \in ResultKeys : Below10(k) => Times1000(k)

\* C2 as stated: with no component below 10K, a first-stage component (50K)
\* is multiplied by 93.75 only if its power exceeds 80W and is otherwise
\* left unchanged.
C2_FirstStageOnlyAbove80W ==
    (cool_pc = "returned" /\ NoSecondStage) =>
        \A k \in ResultKeys : FirstStage(k) =>
            IF PowerExceeds80(k) THEN Times9375(k) ELSE Unchanged(k)

\* C2 as amended: with no component below 10K, a call that returns has
\* multiplied every first-stage component (50K) by 93.75 whatever its power,
\* and a call that raises has left it unchanged.
C2_FirstStageAlwaysWithout4K ==
    NoSecondStage =>
        \A k \in ResultKeys : FirstStage(k) =>
            /\ cool_pc = "returned" => Times9375(k)
            /\ cool_pc = "TypeError" => Unchanged(k)

\* a 50K component below 80W was multiplied, no 4K stage being present
C2_Witness ==
    /\ cool_pc = "returned"
    /\ NoSecondStage
    /\ \E k \in ResultKeys :
          FirstStage(k) /\ ~PowerExceeds80(k) /\ Times9375(k) /\ ~Unchanged(k)

\* C3: a component whose temperature is in 200K..300K, the two ends
\* included, has its energy unchanged by the call.
C3_RoomTemperatureUnchanged ==
    Called => \A k \in ResultKeys :
        (HasKelvin(k) /\ Kelvin(k) >= 200 /\ Kelvin(k) <= 300) => Unchanged(k)

\* a returned call with a component at exactly 200K and one at exactly 300K,
\* and a returned call that changed some other component
C3_Witness ==
    /\ cool_pc = "returned"
    /\ \E k \in ResultKeys : HasKelvin(k) /\ Kelvin(k) = 200
    /\ \E k \in ResultKeys : HasKelvin(k) /\ Kelvin(k) = 300

RECURSIVE TotalUpTo(_)
TotalUpTo(n) ==
    IF n = 0 THEN 0
    ELSE (IF n \in ResultKeys THEN per_component_energy[n] ELSE 0)
         + TotalUpTo(n - 1)

\* C4: after add_cooling_overhead returns, result.energy is the sum of the
\* per-component energies as they stand after the multipliers were applied,
\* components that were skipped or have no node included.
C4_TotalIsSum ==
    cool_pc = "returned" => energy = TotalUpTo(MaxComp)

\* a returned call that multiplied one component and left alone another one
\* that has no node in the specification
C4_Witness ==
    /\ cool_pc = "returned"
    /\ \E k \in ResultKeys : ~Unchanged(k)
    /\ \E k \in ResultKeys : ~HasNode(k)

\* the temperature key is absent for component k
TemperatureAbsent(k) == ~HasNode(k) \/ ~Reported(k)

\* C5: a component whose temperature key is absent (no temperature
\* attribute, or no node of that name) keeps its energy, does not count as a
\* sub-10K stage (with no reported sub-10K component the first-stage factor
\* is applied whatever the power), and never makes the call fail (the call
\* raises only when some reported temperature is None).
C5_AbsentTemperatureSkipped ==
    /\ Called => \A k \in ResultKeys : TemperatureAbsent(k) => Unchanged(k)
    /\ (cool_pc = "returned" /\ NoSecondStage) =>
          \A k \in ResultKeys : FirstStage(k) => Times9375(k)
    /\ cool_pc = "TypeError" =>
          \E k \in ResultKeys : Reported(k) /\ ~HasKelvin(k)
    /\ (cool_pc = "ready" /\ \A k \in ResultKeys : TemperatureAbsent(k)) =>
          ENABLED add_cooling_overhead_returns

\* a returned call on a result with a node-less component and a component
\* whose node has no temperature attribute
C5_Witness ==
    /\ cool_pc = "returned"
    /\ \E k \in ResultKeys : ~HasNode(k)
    /\ \E k \in ResultKeys : HasNode(k) /\ ~Reported(k)

\* energy_before[k] / (cycles * cycle_seconds) < 80
PowerUnder80(k) == energy_before[k] < 80 * 4 * cycles * cycle_seconds

\* C18: whether 4K cooling exists is decided once, from the temperatures
\* alone, as "some component is below 10K".  After the call, if it exists, a
\* component strictly between 10K and 80K is unchanged when its own power is
\* below 80W and multiplied by 93.75 when it is 80W or more; if it does not
\* exist, every such component is multiplied by 93.75 whatever its power.
C18_FirstStageRule ==
    Called =>
        \A k \in ResultKeys : FirstStage(k) =>
            IF NoSecondStage THEN Times9375(k)
            ELSE IF PowerUnder80(k) THEN Unchanged(k)
            ELSE Times9375(k)

TemperatureIsNone(k) == Reported(k) /\ NodeAttributes(k).temperature = None

\* C19: a component whose temperature value is None is skipped (its energy
\* is left unchanged) and the call completes normally, whatever the
\* temperatures and order of the other components.
C19_NoneTemperatureSkipped ==
    (Called /\ \E k \in ResultKeys : TemperatureIsNone(k)) =>
        /\ cool_pc = "returned"
        /\ \A k \in ResultKeys : TemperatureIsNone(k) => Unchanged(k)

\* the energy component k has after a call of add_cooling_overhead on a
\* result that holds k alone (same energy, cycles and cycle_seconds) and the
\* same specification
AloneEnergy(k) ==
    LET pce == [x \in {k} |-> energy_before[k]]
        comp_temp == get_per_component_temperature({k}, nodes)
        any == AnyBelow10(comp_temp, 1)
    IN IF any = "TypeError" THEN pce[k]
       ELSE CoolingLoop(pce, comp_temp, 1, any = "True",
                        cycles, cycle_seconds)[k]

OneFactor(k) == Unchanged(k) \/ Times9375(k) \/ Times1000(k)

\* exactly 10K, exactly 80K, between 80K and 200K, at or above 300K
BoundaryTemperature(k) ==
    /\ HasKelvin(k)
    /\ \/ Kelvin(k) = 10
       \/ Kelvin(k) >= 80 /\ Kelvin(k) < 200
       \/ Kelvin(k) >= 300

NothingDecreased ==
    /\ \A k \in ResultKeys : per_component_energy[k] >= energy_before[k]
    /\ energy >= SumValues(energy_before)

\* C28 as stated: in a single call each component's energy is multiplied by
\* exactly one of 1, 93.75 and 1000, chosen from its own temperature and
\* own power only (so, already in a call that returns, it is what the
\* component gets when it is the only component of the result); components
\* at exactly 10K, exactly 80K, between 80K and 200K and at or above 300K
\* get factor 1; no per-component energy and no total decreases.
C28_OneFactorFromOwnTemperatureAndPower ==
    Called =>
        /\ \A k \in ResultKeys :
              /\ OneFactor(k)
              /\ cool_pc = "returned" =>
                    per_component_energy[k] = AloneEnergy(k)
              /\ BoundaryTemperature(k) => Unchanged(k)
        /\ NothingDecreased

\* four times the factor of component k: 1000 below 10K; strictly between
\* 10K and 80K, 1 when some component is below 10K and k's own power is
\* below 80W, else 93.75; 1 at every other temperature, for None and
\* without a temperature or a node
FactorX4(k) ==
    IF ~HasKelvin(k) THEN 4
    ELSE IF Kelvin(k) < 10 THEN 4000
    ELSE IF Kelvin(k) > 10 /\ Kelvin(k) < 80
         THEN IF ~NoSecondStage /\ PowerUnder80(k) THEN 4 ELSE 375
    ELSE 4

\* C28 as amended: in a single call each component's energy is multiplied
\* by exactly one of 1, 93.75 and 1000, chosen from its own temperature,
\* its own power and whether some component is below 10K (in a call that
\* raises, every factor is 1); components at exactly 10K, exactly 80K,
\* between 80K and 200K and at or above 300K get factor 1; no per-component
\* energy and no total decreases.
C28_OneFactorFromTemperaturePowerAnd4K ==
    Called =>
        /\ \A k \in ResultKeys :
              /\ OneFactor(k)
              /\ cool_pc = "returned" =>
                    4 * per_component_energy[k] = FactorX4(k) * energy_before[k]
              /\ cool_pc = "TypeError" => Unchanged(k)
              /\ BoundaryTemperature(k) => Unchanged(k)
        /\ NothingDecreased

\* a call returned with a 4K component multiplied by 1000, a 50K component
\* under 80W left unchanged beside it
C28_Witness ==
    /\ cool_pc = "returned"
    /\ \E k, j \in ResultKeys :
          /\ Below10(k) /\ Times1000(k)
          /\ FirstStage(j) /\ PowerUnder80(j) /\ Unchanged(j)

(***************************************************************************)
(* Properties of consolidate_keys                                          *)
(***************************************************************************)
CkItems == ck_data.values

CkAllDictionaries == \A i \in DOMAIN CkItems : CkItems[i].is_dict

CkUnion == UNION {Range(CkItems[i].keys) : i \in DOMAIN CkItems}

\* where key k first appears: dictionaries in input order, then the keys of
\* a dictionary in their order
FirstAppearance(k) ==
    LET i == CHOOSE i \in DOMAIN CkItems :
                /\ k \in Range(CkItems[i].keys)
                /\ \A h \in 1 .. i - 1 : k \notin Range(CkItems[h].keys)
        j == CHOOSE j \in DOMAIN CkItems[i].keys : CkItems[i].keys[j] = k
    IN i * (Cardinality(Keys) + 1) + j

\* C6: with missing_ok=True, for any list or dict of dictionaries,
\* consolidate_keys returns (it never raises) the union of all their keys,
\* without duplicates, in order of first appearance.
C6_UnionInFirstAppearanceOrder ==
    (ck_pc \notin {"idle", "ready"} /\ ck_missing_ok /\ CkAllDictionaries) =>
        /\ ck_pc = "returned"
        /\ Range(ck_result) = CkUnion
        /\ \A p, q \in DOMAIN ck_result : p # q => ck_result[p] # ck_result[q]
        /\ \A p, q \in DOMAIN ck_result :
              p < q => FirstAppearance(ck_result[p]) < FirstAppearance(ck_result[q])

TwoDictsAB ==
    CkItems = <<[is_dict |-> TRUE, keys |-> <<"a">>],
                [is_dict |-> TRUE, keys |-> <<"b">>]>>

\* [{"a":1},{"b":2}] with missing_ok=True has returned ["a","b"]
C6_Witness ==
    /\ ck_pc = "returned"
    /\ ck_missing_ok
    /\ TwoDictsAB
    /\ ck_result = <<"a", "b">>

\* C7 as stated: consolidate_keys([{"a":1},{"b":2}], missing_ok=False)
\* raises, reporting key "a" missing from the second dictionary.
C7_RaisesKeyAMissingFromSecond ==
    (ck_pc \notin {"idle", "ready"} /\ ~ck_missing_ok /\ TwoDictsAB) =>
        /\ ck_pc = "ValueError"
        /\ ck_error = [key |-> "a", dictionary |-> 2]

\* C7 as amended: consolidate_keys([{"a":1},{"b":2}], missing_ok=False)
\* raises ValueError, reporting key "b" missing from the first dictionary.
C7_RaisesKeyBMissingFromFirst ==
    (ck_pc \notin {"idle", "ready"} /\ ~ck_missing_ok /\ TwoDictsAB) =>
        /\ ck_pc = "ValueError"
        /\ ck_error = [key |-> "b", dictionary |-> 1]

\* the call on [{"a":1},{"b":2}] with missing_ok=False has raised
C7_Witness ==
    /\ ck_pc = "ValueError"
    /\ ~ck_missing_ok
    /\ TwoDictsAB

(***************************************************************************)
(* Properties of the estimators                                            *)
(***************************************************************************)
Attempted == est_pc \notin {"idle", "new"}

AQFPClasses == {"SRLoop", "IntAddRCSA", "IntMult"}

\* the classes C8 names, each with the key it validates
KeyedClasses ==
    AQFPClasses \cup {"DLMPassive", "CryoDRAM", "CryoSRAM", "Cold2HotNetwork"}

\* the keys given to the constructor are supported ones
KeysSupported ==
    CASE est_class \in AQFPClasses ->
            /\ est_args.cell_node \in DOMAIN CELL_NODE_LOOKUP
            /\ est_args.forecast \in {"conservative", "moderate", "aggressive"}
      [] est_class = "DLMPassive" ->
            est_args.cell_type \in DLMPassive_cell2density
      [] est_class = "CryoDRAM" ->
            est_args.cell_type \in DOMAIN CryoDRAM_cell2energies
      [] est_class = "CryoSRAM" ->
            est_args.cell_type \in DOMAIN CryoSRAM_cell2energies
      [] est_class = "Cold2HotNetwork" ->
            est_args.amp_type \in {"aqfp_diffamp", "JLD_diffamp", "nTron"}
      [] OTHER -> TRUE

\* hot_temp and cold_temp get a route
HasRoute(hot, cold) ==
    \/ hot = cold
    \/ hot > 100 /\ cold > 10
    \/ hot < 100 /\ cold < 10
    \/ hot > 100 /\ cold < 10

\* the arguments other than the keys pass the constructor's own assertions
OtherArgumentsPass ==
    CASE est_class \in {"IntAddRCSA", "IntMult"} -> est_args.depth % 4 = 0
      [] est_class = "Cold2HotNetwork" ->
            HasRoute(est_args.hot_temp, est_args.cold_temp)
      [] OTHER -> TRUE

NoUsableEstimator ==
    /\ est_self = NoSelf
    /\ ~ENABLED call_read
    /\ ~ENABLED call_write
    /\ ~ENABLED call_update

\* C8 as stated: construction succeeds for every supported key and fails
\* with an assertion error for every unsupported one; a failed construction
\* yields no usable estimator.
C8_SupportedKeysConstruct ==
    (Attempted /\ est_class \in KeyedClasses) =>
        /\ KeysSupported => est_pc = "constructed"
        /\ ~KeysSupported => est_pc = "AssertionError"
        /\ est_pc # "constructed" => NoUsableEstimator

\* C8 as amended: construction succeeds for every supported key when the
\* other arguments pass the constructor's own assertions (depth a multiple
\* of 4 for IntAddRCSA and IntMult, a hot/cold pair that gets a route for
\* Cold2HotNetwork), it fails with an assertion error for every unsupported
\* key, and a failed construction yields no usable estimator.
C8_SupportedKeysConstructIfOthersPass ==
    (Attempted /\ est_class \in KeyedClasses) =>
        /\ (KeysSupported /\ OtherArgumentsPass) => est_pc = "constructed"
        /\ ~KeysSupported => est_pc = "AssertionError"
        /\ est_pc # "constructed" => NoUsableEstimator

\* a Cold2HotNetwork was built with amp_type nTron on a routed pair
C8_Witness ==
    /\ est_class = "Cold2HotNetwork"
    /\ est_pc = "constructed"
    /\ est_args.amp_type = "nTron"
    /\ est_self.route = "2->RT"

\* C9: with a valid route, Cables is constructed when type is a type its
\* docstring names ("delft_crioflex", also the default, or "BeCu"), with
\* the stage loads of a row of the cable table, or when type is 0, with the
\* loads supplied; a type that is neither of these (nor a key of the table)
\* fails with an assertion.
C9_CablesDocumentedTypesConstruct ==
    (Attempted /\ est_class = "Cables"
        /\ HasRoute(est_args.hot_temp, est_args.cold_temp)) =>
        /\ CablesDefaultType \in CablesDocumentedTypes
        /\ est_args.type \in CablesDocumentedTypes =>
              /\ est_pc = "constructed"
              /\ \E k \in DOMAIN CRYOCABLE_LOAD :
                    /\ est_self.stage1_load = CRYOCABLE_LOAD[k][1]
                    /\ est_self.stage2_load = CRYOCABLE_LOAD[k][2]
        /\ est_args.type = TypeZero =>
              /\ est_pc = "constructed"
              /\ est_self.stage1_load = est_args.stage1_load
              /\ est_self.stage2_load = est_args.stage2_load
        /\ est_args.type \notin
              CablesDocumentedTypes \cup {TypeZero} \cup DOMAIN CRYOCABLE_LOAD
              => est_pc = "AssertionError"

\* C10: once construction has succeeded, read(), write() and update() of
\* every estimator that defines the three return a scalar energy and do not
\* raise.
C10_ReadWriteUpdateReturn ==
    (est_pc = "constructed" /\ est_class \in ReadWriteUpdateClasses
        /\ est_call \in {"read", "write", "update"}) =>
        est_ret.status = "returned"

PlaceholderClasses == {"VTcellRAM", "AQFP_Dlatch"}

ReturnedZero == est_ret = [status |-> "returned", value |-> Zero]

\* C11: AQFP_Dlatch and VTcellRAM return 0 from read, write, update, leak
\* and get_area, for every choice of global_cycle_seconds, width and depth:
\* each of the five can be called on a constructed instance, and whichever
\* was called last returned 0.
C11_PlaceholdersReturnZero ==
    (est_pc = "constructed" /\ est_class \in PlaceholderClasses) =>
        /\ est_args \in MemoryArguments
        /\ ENABLED call_read /\ ENABLED call_write /\ ENABLED call_update
        /\ ENABLED call_leak /\ ENABLED call_get_area
        /\ est_call \in {"read", "write", "update", "leak", "get_area"}
              => ReturnedZero

\* get_area was called on a 2 x 2 VTcellRAM
C11_Witness ==
    /\ est_class = "VTcellRAM"
    /\ est_pc = "constructed"
    /\ est_args.width = 2 /\ est_args.depth = 2
    /\ est_call = "get_area"

\* the instance Class(**est_args) builds
FreshSelf ==
    (CASE est_class = "VTcellRAM" -> VTcellRAM_init(est_args)
       [] est_class = "DLMPassive" -> DLMPassive_init(est_args)
       [] est_class = "nMem" -> nMem_init(est_args)
       [] est_class = "AQFP_Dlatch" -> AQFP_Dlatch_init(est_args)
       [] est_class = "CryoDRAM" -> CryoDRAM_init(est_args)
       [] est_class = "CryoSRAM" -> CryoSRAM_init(est_args)
       [] est_class = "Cables" -> Cables_init(est_args)
       [] est_class = "Hot2ColdNetwork" -> Hot2ColdNetwork_init(est_args)
       [] est_class = "Cold2HotNetwork" -> Cold2HotNetwork_init(est_args)
       [] est_class = "ColdChip2ChipNetwork" ->
             ColdChip2ChipNetwork_init(est_args)
       [] est_class = "SRLoop" -> SRLoop_init(est_args)
       [] est_class = "IntAddRCSA" -> IntAddRCSA_init(est_args)
       [] est_class = "IntMult" -> IntMult_init(est_args)
       [] OTHER -> RQL_IntMult_init(est_args, TRUE)).self

Outcome(r) == [status |-> r.status, value |-> r.value]

LeakArguments ==
    IF est_class \in LeakTakesCycleSeconds THEN CycleSeconds ELSE {1}

\* C12: leak() and get_area() are deterministic functions of the constructor
\* parameters: on an estimator that has answered any sequence of queries,
\* the last leak() or get_area() returned, and the next one will return,
\* exactly what the first call on an instance freshly built with the same
\* parameters returns.
C12_LeakAndAreaDeterministic ==
    (est_pc = "constructed" /\ est_class \in LeakAreaClasses) =>
        /\ \A g \in LeakArguments :
              /\ Outcome(leak(est_class, est_self, g))
                    = Outcome(leak(est_class, FreshSelf, g))
              /\ est_call = "leak" =>
                    est_ret = Outcome(leak(est_class, FreshSelf, g))
        /\ Outcome(get_area(est_class, est_self))
              = Outcome(get_area(est_class, FreshSelf))
        /\ est_call = "get_area" =>
              est_ret = Outcome(get_area(est_class, FreshSelf))

\* get_area() was called on a Hot2ColdNetwork after a read() that had set
\* its length
C12_Witness ==
    /\ est_class = "Hot2ColdNetwork"
    /\ est_pc = "constructed"
    /\ est_call = "get_area"
    /\ est_self.length # FreshSelf.length

\* C13 as stated: no query method changes any attribute of the estimator:
\* after any sequence of queries the attributes equal the values they had
\* when construction finished.
C13_QueriesChangeNoAttribute ==
    est_pc = "constructed" => est_self = FreshSelf

\* the cable length Hot2ColdNetwork.read assumes for a route, in mm
DefaultLength(route) ==
    IF route = "RT->1" THEN 320 ELSE IF route = "1->2" THEN 240 ELSE 560

\* C13 as amended: no query method changes any attribute of the estimator,
\* except that read() of a Hot2ColdNetwork built with length 0 on a route
\* that is not stationary sets length to the default of the route; every
\* other attribute keeps the value it had when construction finished.
C13_QueriesChangeOnlyDefaultLength ==
    est_pc = "constructed" =>
        IF est_class = "Hot2ColdNetwork" /\ est_self.length # FreshSelf.length
        THEN /\ FreshSelf.length = 0
             /\ est_self.route # "stationary"
             /\ est_self.length = DefaultLength(est_self.route)
             /\ [est_self EXCEPT !.length = 0] = FreshSelf
        ELSE est_self = FreshSelf

\* a Hot2ColdNetwork built with a length of its own has answered read()
C13_Witness ==
    /\ est_class = "Hot2ColdNetwork"
    /\ est_pc = "constructed"
    /\ est_call = "read"
    /\ est_self.route = "RT->2"
    /\ est_args.length = 100

RQLConstructed == est_class = "RQL_IntMult" /\ est_pc = "constructed"

EndedTasks == {i \in DOMAIN task : Ended(task[i])}

ReturnedResult(i) == task[i].pc = "returned" /\ task[i].outcome = "result"

ReturnedNone(i) == task[i].pc = "returned" /\ task[i].outcome = "None"

Propagated(i) == task[i].pc = "raised" /\ task[i].outcome = task[i].raised

\* C14 as stated: if any step raises, then with return_none_on_fail=False
\* the same exception propagates to the caller and with
\* return_none_on_fail=True the call returns None and raises nothing; if no
\* step raises, the call returns the result object in both modes.
C14_RaisePropagatesOrNone ==
    \A i \in EndedTasks :
        IF task[i].raised = "" THEN ReturnedResult(i)
        ELSE IF jobs[i].return_none_on_fail THEN ReturnedNone(i)
        ELSE Propagated(i)

\* C14 as amended: if a step raises an exception derived from Exception,
\* then with return_none_on_fail=False the same exception propagates and
\* with return_none_on_fail=True the call returns None and raises nothing;
\* an exception that is not derived from Exception propagates in both
\* modes; if no step raises, the call returns the result object in both
\* modes.
C14_ExceptionPropagatesOrNone ==
    \A i \in EndedTasks :
        IF task[i].raised = "" THEN ReturnedResult(i)
        ELSE IF task[i].raised = "Exception" /\ jobs[i].return_none_on_fail
        THEN ReturnedNone(i)
        ELSE Propagated(i)

\* with return_none_on_fail=True, one call returned None after an Exception
\* and another let an exception outside Exception through
C14_Witness ==
    \E i, j \in EndedTasks :
        /\ jobs[i].return_none_on_fail
        /\ task[i].raised = "Exception" /\ ReturnedNone(i)
        /\ task[j].raised = "BaseException" /\ Propagated(j)

UsesDirectory(i) == Running(task[i]) /\ task[i].out_dir # NoDir

\* C15: N sweep points submitted to parallel() yield exactly N outcomes, the
\* i-th being what the i-th point's call returned (a result object, or None
\* for a failed point run with return_none_on_fail); and no two tasks that
\* are running at the same time use the same output directory: each
\* running task's directory still holds its own files, in every
\* interleaving of the workers.
C15_SweepOutcomesAndDirectories ==
    /\ par_pc = "returned" =>
          /\ Len(par_result) = Len(jobs)
          /\ \A i \in DOMAIN jobs :
                /\ par_result[i] \in {"result", "None"}
                /\ par_result[i] = task[i].outcome
                /\ par_result[i] = "None" =>
                      /\ jobs[i].return_none_on_fail
                      /\ task[i].raised # ""
    /\ \A i, j \in DOMAIN task :
          (i # j /\ UsesDirectory(i) /\ UsesDirectory(j))
              => task[i].out_dir # task[j].out_dir
    /\ \A i \in DOMAIN task :
          UsesDirectory(i) => <<task[i].out_dir, i>> \in fs

\* two points of the same sub-architecture are running at the same time,
\* each in its directory
C15_Witness ==
    \E i, j \in DOMAIN task :
        /\ i # j
        /\ jobs[i].sub_architecture = jobs[j].sub_architecture
        /\ UsesDirectory(i) /\ UsesDirectory(j)

Occurrences(seq, x) == Cardinality({k \in DOMAIN seq : seq[k] = x})

BeforeCooling ==
    <<"get_spec", "get_run_dir", "call_mapper", "clear_zero_energies",
      "clear_zero_areas">>

\* C20: in generate_result the cooling overhead is applied only after the
\* mapper has completed and zero energies and zero areas have been cleared,
\* in that order; it is applied exactly once before the result is returned
\* when add_cooling is true and never when it is false; and nothing is done
\* to the result after the cooling step before it is returned.
C20_CoolingLastAndOnce ==
    \A i \in DOMAIN task :
        LET done == task[i].done
        IN /\ Occurrences(done, "add_cooling_overhead") > 0 =>
                 /\ jobs[i].add_cooling
                 /\ done = Append(BeforeCooling, "add_cooling_overhead")
           /\ (task[i].pc = "return" \/ ReturnedResult(i)) =>
                 done = IF jobs[i].add_cooling
                        THEN Append(BeforeCooling, "add_cooling_overhead")
                        ELSE BeforeCooling

\* a call with add_cooling returned its result, the overhead applied once
C20_Witness ==
    \E i \in DOMAIN task :
        /\ jobs[i].add_cooling
        /\ ReturnedResult(i)
        /\ Occurrences(task[i].done, "add_cooling_overhead") = 1


(***************************************************************************)
(* Properties of the plotting utilities                                    *)
(***************************************************************************)
PlottingUtilities == {"bar_side_by_side", "bar_stacked", "plot", "scatter"}

\* a non-empty mapping from category label to scalar
ScalarValued(result) ==
    /\ result.values # <<>>
    /\ \A i \in DOMAIN result.values : ~result.values[i].is_dict

\* a non-empty mapping from category label to a nested mapping
NestedValued(result) ==
    /\ result.values # <<>>
    /\ \A i \in DOMAIN result.values : result.values[i].is_dict

\* C16: each plotting utility (bar_side_by_side, bar_stacked, plot,
\* scatter), called with a non-empty scalar-valued mapping or a non-empty
\* mapping to nested mappings, returns without raising, and a scalar-valued
\* mapping is gone through as the single sub-series named "".
C16_PlottingAcceptsBothShapes ==
    /\ pl_function \in PlottingUtilities
    /\ ScalarValued(pl_result) \/ NestedValued(pl_result)
    => /\ pl_pc = "returned"
       /\ ScalarValued(pl_result) => pl_keys = <<"">>

(***************************************************************************)
(* Properties of the routes, the networks and the AQFP estimators          *)
(***************************************************************************)
RoutedClasses == {"Cables", "Hot2ColdNetwork"}

\* the three temperature ranges of the docstring of Hot2ColdNetwork
TemperatureRange(t) ==
    IF t > 100 THEN "room temperature"
    ELSE IF t >= 10 THEN "first stage"
    ELSE "second stage"

\* the route the claim gives a hot/cold pair ("" when none)
ClaimedRoute(hot_temp, cold_temp) ==
    IF hot_temp = cold_temp THEN "stationary"
    ELSE IF hot_temp > 100 /\ cold_temp > 10 THEN "RT->1"
    ELSE IF hot_temp < 100 /\ cold_temp < 10 THEN "1->2"
    ELSE IF hot_temp > 100 /\ cold_temp < 10 THEN "RT->2"
    ELSE ""

\* the arguments other than the temperatures pass the constructor
CableTypePasses ==
    est_class = "Cables" =>
        est_args.type = TypeZero \/ CablesLookup(est_args.type) # {}

\* C21: in Cables and Hot2ColdNetwork the route is "stationary" whenever
\* hot_temp = cold_temp, otherwise "RT->1", "1->2" or "RT->2" by the three
\* tests; every pair with the hot end in a warmer one of the three
\* documented ranges than the cold end gets a route; construction fails on
\* the route assertion only when no route applies, and a constructed
\* instance has exactly one of the four routes.
C21_RouteClassification ==
    (Attempted /\ est_class \in RoutedClasses /\ CableTypePasses) =>
        LET hot == est_args.hot_temp
            cold == est_args.cold_temp
        IN /\ est_pc = "constructed" =>
                 /\ est_self.route = ClaimedRoute(hot, cold)
                 /\ est_self.route \in
                       {"stationary", "RT->1", "1->2", "RT->2"}
           /\ est_pc # "constructed" =>
                 /\ est_pc = "AssertionError"
                 /\ ClaimedRoute(hot, cold) = ""
           /\ (hot > cold /\ TemperatureRange(hot) # TemperatureRange(cold))
                 => est_pc = "constructed"

\* the heatload the claim gives a route, from the loads of the instance
ClaimedHeatload(self) ==
    IF self.route = "RT->1" THEN self.stage1_load
    ELSE IF self.route = "1->2" THEN self.stage2_load
    ELSE self.stage1_load + self.stage2_load

\* C22: Cables.leak returns 0 when electrical_only is true or the route is
\* stationary; otherwise it returns (heatload / frequency) * channel_count
\* with heatload stage1_load on RT->1, stage2_load on 1->2 and stage1_load
\* + stage2_load on RT->2; leak can be called on, and returns for, every
\* constructed Cables.
C22_CablesLeak ==
    (est_pc = "constructed" /\ est_class = "Cables") =>
        /\ ENABLED call_leak
        /\ est_self.route \in {"stationary", "RT->1", "1->2", "RT->2"}
        /\ est_call = "leak" =>
              /\ est_ret.status = "returned"
              /\ (est_self.electrical_only \/ est_self.route = "stationary")
                    => est_ret.value = Zero
              /\ ~(est_self.electrical_only \/ est_self.route = "stationary")
                    => est_ret.value =
                          Q(ClaimedHeatload(est_self)
                               * est_args.global_cycle_seconds
                               * est_self.channel_count, "1e-6 W * T")

\* leak was called on a thermally loaded cable that crosses both stages
C22_Witness ==
    /\ est_class = "Cables"
    /\ est_pc = "constructed"
    /\ est_call = "leak"
    /\ est_self.route = "RT->2"
    /\ ~est_self.electrical_only
    /\ est_self.channel_count = 2
    /\ est_ret.value # Zero

\* lna_energy * datawidth
LnaEnergy(self) == Times(self.lna_energy, self.datawidth)

\* (amplifier energy of amp_type + diff_amp_energy) * datawidth
AmplifiedEnergy(self) ==
    Times(Plus(AmplifierEnergy(self), self.diff_amp_energy), self.datawidth)

\* C23: Cold2HotNetwork.read returns 0 on a stationary route, lna_energy *
\* datawidth on 1->RT whatever the amp_type, (amplifier energy of the
\* amp_type + diff_amp_energy) * datawidth on 2->1, and that plus
\* lna_energy * datawidth on 2->RT, so that read on 2->RT equals read of
\* the same instance on 2->1 plus lna_energy * datawidth; leak returns 0.
C23_Cold2HotRead ==
    (est_pc = "constructed" /\ est_class = "Cold2HotNetwork") =>
        /\ est_self.route \in {"stationary", "1->RT", "2->1", "2->RT"}
        /\ est_call = "read" =>
              /\ est_ret.status = "returned"
              /\ est_self.route = "stationary" => est_ret.value = Zero
              /\ est_self.route = "1->RT" =>
                    /\ est_ret.value = LnaEnergy(est_self)
                    /\ \A t \in amp_type_options :
                          read(est_class, [est_self EXCEPT !.amp_type = t])
                              .value = est_ret.value
              /\ est_self.route = "2->1" =>
                    est_ret.value = AmplifiedEnergy(est_self)
              /\ est_self.route = "2->RT" =>
                    /\ est_ret.value =
                          Plus(AmplifiedEnergy(est_self), LnaEnergy(est_self))
                    /\ est_ret.value =
                          Plus(read(est_class,
                                    [est_self EXCEPT !.route = "2->1"]).value,
                               LnaEnergy(est_self))
        /\ est_call = "leak" => ReturnedZero

\* read was called on a network from the second stage to room temperature
C23_Witness ==
    /\ est_class = "Cold2HotNetwork"
    /\ est_pc = "constructed"
    /\ est_call = "read"
    /\ est_self.route = "2->RT"
    /\ est_self.amp_type = "JLD_diffamp"
    /\ est_self.datawidth = 2
    /\ est_ret.value # Zero

\* a Cold2HotNetwork from the second to the first stage (50K, 4K) with the
\* other arguments of the ColdChip2ChipNetwork under construction
SecondToFirstNetwork ==
    Cold2HotNetwork_init(
        [global_cycle_seconds |-> est_args.global_cycle_seconds,
         datawidth |-> est_args.datawidth,
         hot_temp |-> 50, cold_temp |-> 4,
         channel_count |-> est_args.channel_count,
         amp_type |-> est_args.amp_type])

\* C24: a ColdChip2ChipNetwork is constructed for every cold_temp (and
\* every supported amp_type) with route "2->1"; read, write and update
\* return the same value, the read energy of a Cold2HotNetwork on 2->1 with
\* the same amp_type and datawidth, and it is not 0; leak and get_area
\* return 0.
C24_ChipToChipIsSecondToFirst ==
    (Attempted /\ est_class = "ColdChip2ChipNetwork") =>
        /\ est_args.amp_type \in amp_type_options => est_pc = "constructed"
        /\ est_pc = "constructed" =>
              /\ est_self.route = "2->1"
              /\ SecondToFirstNetwork.self.route = "2->1"
              /\ est_call \in {"read", "write", "update"} =>
                    /\ est_ret.status = "returned"
                    /\ est_ret.value =
                          read("Cold2HotNetwork",
                               SecondToFirstNetwork.self).value
                    /\ est_ret.value # Zero
              /\ est_call \in {"leak", "get_area"} => ReturnedZero

\* update was called on a chip-to-chip network at 4K
C24_Witness ==
    /\ est_class = "ColdChip2ChipNetwork"
    /\ est_pc = "constructed"
    /\ est_args.cold_temp = 4
    /\ est_args.amp_type = "nTron"
    /\ est_call = "update"
    /\ est_ret.value # Zero

\* ten times the routing overhead the docstring gives a forecast
RoutingOverheadX10(forecast) ==
    IF forecast = "conservative" THEN 13
    ELSE IF forecast = "moderate" THEN 12 ELSE 11

\* the same adder constructed with forecast "conservative"
ConservativeAdder ==
    IntAddRCSA_init([est_args EXCEPT !.forecast = "conservative"])

\* C25: an IntAddRCSA constructed with forecast "moderate" or "aggressive"
\* has the forecast attribute, the device count and the area (30% routing
\* overhead) of the same adder constructed with forecast "conservative";
\* get_area of SRLoop and IntMult uses routing overhead 1.3, 1.2 or 1.1 for
\* the forecast conservative, moderate or aggressive they were given.
C25_AdderForecastIsConservative ==
    /\ (est_pc = "constructed" /\ est_class = "IntAddRCSA") =>
          /\ ConservativeAdder.status = "constructed"
          /\ est_self.forecast = "conservative"
          /\ est_self.qfp_count = ConservativeAdder.self.qfp_count
          /\ est_call = "get_area" =>
                /\ est_ret = [status |-> "returned",
                              value |-> get_area(est_class,
                                           ConservativeAdder.self).value]
                /\ est_ret.value =
                      Q(est_self.qfp_count * est_self.cell_node.area * 13,
                        "1e-14 m^2")
    /\ (est_pc = "constructed" /\ est_class \in {"SRLoop", "IntMult"}
           /\ est_call = "get_area") =>
          est_ret = [status |-> "returned",
                     value |-> Q(est_self.qfp_count * est_self.cell_node.area
                                    * RoutingOverheadX10(est_args.forecast),
                                 "1e-14 m^2")]

\* get_area was called on an adder constructed with forecast "aggressive"
C25_Witness ==
    /\ est_class = "IntAddRCSA"
    /\ est_pc = "constructed"
    /\ est_args.forecast = "aggressive"
    /\ est_args.depth = 8
    /\ est_call = "get_area"
    /\ est_ret.value # Zero

\* the dynamic actions each AQFP estimator defines or inherits from
\* AQFPEstimator
AQFPActions ==
    [SRLoop |-> {"read", "write", "update"},
     IntAddRCSA |-> {"read", "add"},
     IntMult |-> {"read", "mult"}]

\* C26: for every AQFP estimator (SRLoop, IntAddRCSA, IntMult) and every
\* supported parameter set, each of its dynamic actions (among read, write,
\* update, add, mult) can be called and returns 0, and SRLoop.update
\* equals read() + write().
C26_AQFPDynamicEnergyIsZero ==
    (est_pc = "constructed" /\ est_class \in AQFPClasses) =>
        /\ "read" \in AQFPActions[est_class] => ENABLED call_read
        /\ "write" \in AQFPActions[est_class] => ENABLED call_write
        /\ "update" \in AQFPActions[est_class] => ENABLED call_update
        /\ "add" \in AQFPActions[est_class] => ENABLED call_add
        /\ "mult" \in AQFPActions[est_class] => ENABLED call_mult
        /\ est_call \in {"read", "write", "update", "add", "mult"} =>
              /\ est_call \in AQFPActions[est_class]
              /\ ReturnedZero
        /\ (est_class = "SRLoop" /\ est_call = "update") =>
              est_ret.value = Plus(read(est_class, est_self).value,
                                   write(est_class, est_self).value)

\* add was called on an 8-bit adder
C26_Witness ==
    /\ est_class = "IntAddRCSA"
    /\ est_pc = "constructed"
    /\ est_args.depth = 8
    /\ est_call = "add"
    /\ est_self.qfp_count > 0

(***************************************************************************)
(* Properties of plot and scatter with missing sub-series                  *)
(***************************************************************************)
\* some sub-series is present for some categories and missing for others
SomeKeyMissing(result) ==
    \E i, j \in DOMAIN result.values :
        \E k \in Range(result.values[i].keys) :
            k \notin Range(result.values[j].keys)

\* C27: plot and scatter called with missing_ok=True (their default) on a
\* nested mapping in which a sub-series is present for some categories and
\* missing for others complete without raising.
C27_PlotToleratesMissingKeys ==
    (/\ pl_function \in {"plot", "scatter"}
     /\ pl_missing_ok
     /\ NestedValued(pl_result)
     /\ SomeKeyMissing(pl_result))
    => pl_pc = "returned"

=============================================================================
